---- MODULE Spec2Model ----
(***************************************************************************)
(* Reachable-set engine of commonroad-reach: the interface                  *)
(* (ReachableSetInterface), the reachable-set store (ReachableSet), the     *)
(* per-step analysis (ReachabilityAnalysis), reach nodes (ReachNode) and    *)
(* the Cartesian collision checker (PyCollisionChecker).                    *)
(*                                                                          *)
(* Units.  Positions are integers ("ticks"); velocities are even integers   *)
(* (ticks per step); accelerations are even integers; dt is one step.  A    *)
(* position rectangle is <<p_lon_min, p_lat_min, p_lon_max, p_lat_max>>, a  *)
(* closed set.  A polygon of the (position, velocity) plane is kept as its  *)
(* velocity slices: a set of <<v, p_lo, p_hi>>, at most one per lattice     *)
(* velocity v, the polygon's position interval at that velocity.  The empty *)
(* set is the empty polygon.                                                *)
(***************************************************************************)
EXTENDS Integers, Sequences, FiniteSets, TLC

\* ---------------------------------------------------------------- bounds
\* Largest steps_computation a configuration may ask for.
MaxHorizon == 3
\* Accepted compute calls per behaviour.
MaxComputes == 2
\* reset() calls per behaviour.
MaxResets == 1

\* --------------------------------------------------------------- helpers
Min(S) == CHOOSE x \in S : \A y \in S : x <= y

Max(S) == CHOOSE x \in S : \A y \in S : x >= y

Range(s) == {s[i] : i \in DOMAIN s}

RECURSIVE Concat(_)
\* The concatenation of a sequence of sequences.
Concat(ss) == IF ss = <<>> THEN <<>> ELSE Head(ss) \o Concat(Tail(ss))

\* floor(a / g) and ceil(a / g) for g > 0.
FloorDiv(a, g) == a \div g

CeilDiv(a, g) == -((-a) \div g)

\* ------------------------------------------------------ ReachPolygon
\* ReachPolygon.from_rectangle_vertices(p_min, v_min, p_max, v_max) in a
\* (position, velocity) plane: one slice per lattice velocity.
from_rectangle_vertices(p_min, v_min, p_max, v_max) ==
    {<<v, p_min, p_max>> : v \in {w \in v_min..v_max : w % 2 = 0}}

\* ReachPolygon.bounds: (min x, min y, max x, max y) = (p_min, v_min, p_max, v_max).
bounds(polygon) ==
    << Min({s[2] : s \in polygon}), Min({s[1] : s \in polygon}),
       Max({s[3] : s \in polygon}), Max({s[1] : s \in polygon}) >>

\* ReachPolygon.intersect_halfspace(a, b, c): polygon /\ {a*p + b*v <= c}, for the
\* four axis-parallel half-planes the engine uses.
intersect_halfspace(polygon, a, b, c) ==
    CASE a = 1 /\ b = 0 ->
           {<<s[1], s[2], IF s[3] < c THEN s[3] ELSE c>> : s \in {x \in polygon : x[2] <= c}}
      [] a = -1 /\ b = 0 ->
           {<<s[1], IF s[2] > -c THEN s[2] ELSE -c, s[3]>> : s \in {x \in polygon : x[3] >= -c}}
      [] a = 0 /\ b = 1 -> {s \in polygon : s[1] <= c}
      [] a = 0 /\ b = -1 -> {s \in polygon : s[1] >= -c}

\* The convex hull of several polygons, slice by slice.
convex_hull(polygons) ==
    LET all == UNION polygons
    IN {<<v, Min({s[2] : s \in {x \in all : x[1] = v}}),
             Max({s[3] : s \in {x \in all : x[1] = v}})>> : v \in {s[1] : s \in all}}

\* create_zero_state_polygon(dt, a_min, a_max): the segment
\* {(a*dt*dt/2, a*dt) : a in [a_min, a_max]}, as its lattice points <<dp, dv>>.
create_zero_state_polygon(dt, a_min, a_max) ==
    {<<(a * dt * dt) \div 2, a * dt>> : a \in {b \in a_min..a_max : b % 2 = 0}}

\* propagate_polygon: zero-input shear, Minkowski sum with the zero-state
\* polygon, clip to the velocity band.  The empty result stands for the
\* ValueError the caller catches.
propagate_polygon(polygon, polygon_zero_state, dt, v_min, v_max) ==
    LET sheared == {<<s[1], s[2] + s[1] * dt, s[3] + s[1] * dt>> : s \in polygon}
        summed == {<<s[1] + z[2], s[2] + z[1], s[3] + z[1]>> :
                       s \in sheared, z \in polygon_zero_state}
        hull == convex_hull({summed})
    IN intersect_halfspace(intersect_halfspace(hull, 0, 1, v_max), 0, -1, -v_min)

\* ------------------------------------------------- rectangle operations
\* Closed rectangles r and o share a point (shapely's intersects).
Intersects(r, o) == r[1] <= o[3] /\ o[1] <= r[3] /\ r[2] <= o[4] /\ o[2] <= r[4]

\* The g-cells of the rectangle r and one more column to its right.
CellsOfAndOneMore(r, g) ==
    {<<i, j>> : i \in FloorDiv(r[1], g)..CeilDiv(r[3], g),
                j \in FloorDiv(r[2], g)..(CeilDiv(r[4], g) - 1)}

\* The g-cells <<i, j>> (the square [i*g, (i+1)*g] x [j*g, (j+1)*g]) of the
\* rectangle r snapped outward to the g-grid.
CellsOf(r, g) ==
    {<<i, j>> : i \in FloorDiv(r[1], g)..(CeilDiv(r[3], g) - 1),
                j \in FloorDiv(r[2], g)..(CeilDiv(r[4], g) - 1)}

\* The first cell in scan order: rows (j) first, then columns (i).
FirstCell(cells) ==
    LET j0 == Min({c[2] : c \in cells})
    IN <<Min({c[1] : c \in {d \in cells : d[2] = j0}}), j0>>

\* A reassembly into one rectangle, the bounding box of the cells.
ReassembleBoundingBox(cells, g) ==
    IF cells = {} THEN <<>>
    ELSE << <<Min({c[1] : c \in cells}) * g, Min({c[2] : c \in cells}) * g,
              (Max({c[1] : c \in cells}) + 1) * g, (Max({c[2] : c \in cells}) + 1) * g>> >>

RECURSIVE Reassemble(_, _)
\* Greedy reassembly of a cell set into maximal g-aligned rectangles: from the
\* first unvisited cell extend right while cells are present, then extend to
\* the next rows while the whole row segment is present.
Reassemble(cells, g) ==
    IF cells = {} THEN <<>>
    ELSE LET c0 == FirstCell(cells)
             iMax == Max({c[1] : c \in cells})
             jMax == Max({c[2] : c \in cells})
             w == Max({k \in 1..(iMax - c0[1] + 1) :
                          \A i \in c0[1]..(c0[1] + k - 1) : <<i, c0[2]>> \in cells})
             h == Max({k \in 1..(jMax - c0[2] + 1) :
                          \A j \in c0[2]..(c0[2] + k - 1) :
                              \A i \in c0[1]..(c0[1] + w - 1) : <<i, j>> \in cells})
             used == {<<i, j>> : i \in c0[1]..(c0[1] + w - 1), j \in c0[2]..(c0[2] + h - 1)}
         IN << <<c0[1] * g, c0[2] * g, (c0[1] + w) * g, (c0[2] + h) * g>> >>
                \o Reassemble(cells \ used, g)

\* create_repartitioned_rectangles(rectangles, size_grid): snap outward, take
\* the union footprint in cells, reassemble.
create_repartitioned_rectangles(list_rectangles, size_grid) ==
    Reassemble(UNION {CellsOf(r, size_grid) : r \in Range(list_rectangles)}, size_grid)

\* ------------------------------------------------------ configuration
\* VehicleConfiguration.Ego: velocity and acceleration bounds of the ego vehicle.
Ego ==
    [v_lon_min |-> 0, v_lon_max |-> 4, v_lat_min |-> -2, v_lat_max |-> 2,
     a_lon_min |-> -2, a_lon_max |-> 2, a_lat_min |-> -2, a_lat_max |-> 2]

\* The scenarios: the occupancies of the obstacles of the scenario, rectangles
\* of the Cartesian frame.  "static" holds at every step, "dynamic" at its step,
\* "boundary" is the road-boundary obstacle.
Scenarios ==
    [empty |-> [static |-> {}, dynamic |-> [t \in 0..(MaxHorizon + 2) |-> {}],
                boundary |-> {}],
     traffic |-> [static |-> {<<5, 9, 6, 10>>},
                  dynamic |-> [t \in 0..(MaxHorizon + 2) |->
                                  IF t >= 3 THEN {<<5, 0, 40, 40>>} ELSE {}],
                  boundary |-> {<<-8, 0, 40, 5>>}]]

\* The configurations a caller may construct or reset the interface with.
\* mode_computation 1 is the Python polytopic engine; 5 is no mode.
Configurations ==
    [mode_computation : {1},
     dt : {1},
     step_start : {0, 1},
     steps_computation : {MaxHorizon},
     p_lon_initial : {0}, p_lat_initial : {10},
     uncertainty_p_lon : {0}, uncertainty_p_lat : {0},
     v_lon_initial : {2, 8}, v_lat_initial : {0},
     uncertainty_v_lon : {0}, uncertainty_v_lat : {0},
     size_grid : {4}, size_grid_2nd : {2, 4},
     radius_terminal_split : {2},
     prune_nodes_not_reaching_final_step : BOOLEAN,
     consider_traffic : {TRUE},
     scenario : {"empty", "traffic"}]

\* ------------------------------------------------- PyCollisionChecker
\* _create_cartesian_scenario_for_collision_check: the obstacles (when traffic
\* is considered) and the road boundary.
scenario_cc(cfg) ==
    LET sc == Scenarios[cfg.scenario]
    IN [static |-> (IF cfg.consider_traffic THEN sc.static ELSE {}) \cup sc.boundary,
        dynamic |-> [t \in DOMAIN sc.dynamic |->
                        IF cfg.consider_traffic THEN sc.dynamic[t] ELSE {}]]

\* list_polygons_collision_at_time_step: the occupancies at the step.
list_polygons_collision_at_time_step(cfg, time_step) ==
    LET cc == scenario_cc(cfg)
    IN cc.static \cup (IF time_step \in DOMAIN cc.dynamic THEN cc.dynamic[time_step] ELSE {})

\* rectangle_collides_with_obstacles: some polygon intersects the rectangle.
rectangle_collides_with_obstacles(rectangle, list_polygons) ==
    \E polygon \in list_polygons : Intersects(rectangle, polygon)

\* collides_at_time_step(time_idx, rectangle).
collides_at_time_step(cfg, time_idx, rectangle) ==
    rectangle_collides_with_obstacles(rectangle,
                                      list_polygons_collision_at_time_step(cfg, time_idx))

\* A split that drops a colliding rectangle whole, whatever its size.
split_never(cfg, step, rect, r_term) ==
    IF ~collides_at_time_step(cfg, step, rect) THEN <<rect>> ELSE <<>>

RECURSIVE split_until_radius(_, _, _, _)
\* Recursive collision split: a rectangle that does not collide is kept; a
\* colliding one whose half-diagonal is at most the terminal radius is dropped;
\* any other is split at the midpoint of its longer axis.
split_until_radius(cfg, step, rect, r_term) ==
    LET w == rect[3] - rect[1]
        h == rect[4] - rect[2]
        mx == (rect[1] + rect[3]) \div 2
        my == (rect[2] + rect[4]) \div 2
    IN IF ~collides_at_time_step(cfg, step, rect) THEN <<rect>>
       ELSE IF w * w + h * h <= 4 * r_term * r_term THEN <<>>
       ELSE IF w >= h
            THEN split_until_radius(cfg, step, <<rect[1], rect[2], mx, rect[4]>>, r_term)
                 \o split_until_radius(cfg, step, <<mx, rect[2], rect[3], rect[4]>>, r_term)
            ELSE split_until_radius(cfg, step, <<rect[1], rect[2], rect[3], my>>, r_term)
                 \o split_until_radius(cfg, step, <<rect[1], my, rect[3], rect[4]>>, r_term)

\* check_collision_and_split_rectangles(checker, step, rectangles, radius).
check_collision_and_split_rectangles(cfg, step, list_rectangles, radius_terminal_split) ==
    Concat([i \in DOMAIN list_rectangles |->
               split_until_radius(cfg, step, list_rectangles[i], radius_terminal_split)])

\* ----------------------------------------------------------- ReachNode
\* ReachNode.__init__(polygon_lon, polygon_lat, time_step), with the id the
\* class counter hands out.  The bounds are read once, here.  A node refers to
\* other nodes by their place in the heap; 0 is None.
ReachNode(polygon_lon, polygon_lat, time_step, id) ==
    [id |-> id,
     polygon_lon |-> polygon_lon,
     polygon_lat |-> polygon_lat,
     bounds_lon |-> IF polygon_lon # {} THEN bounds(polygon_lon) ELSE <<>>,
     bounds_lat |-> IF polygon_lat # {} THEN bounds(polygon_lat) ELSE <<>>,
     time_step |-> time_step,
     list_nodes_parent |-> <<>>,
     list_nodes_child |-> <<>>,
     source_propagation |-> 0]

\* ReachNode.position_rectangle: from the bounds read at construction.
position_rectangle(node) ==
    <<node.bounds_lon[1], node.bounds_lat[1], node.bounds_lon[3], node.bounds_lat[3]>>

\* `node in list` under ReachNode.__eq__: some element has the same id.
NodeIn(heap, ref, list) == \E i \in DOMAIN list : heap[list[i]].id = heap[ref].id

\* An add_parent_node that appends the node itself in place of the parent.
add_parent_node_self(heap, self, node_parent) ==
    IF ~NodeIn(heap, self, heap[self].list_nodes_parent)
    THEN [heap EXCEPT ![self].list_nodes_parent = Append(@, self)]
    ELSE heap

\* An add_parent_node that takes a parent whose id is 0 for no parent.
add_parent_node_unless_id_zero(heap, self, node_parent) ==
    IF heap[node_parent].id # 0 /\ ~NodeIn(heap, node_parent, heap[self].list_nodes_parent)
    THEN [heap EXCEPT ![self].list_nodes_parent = Append(@, node_parent)]
    ELSE heap

\* ReachNode.add_parent_node: append unless a node of that id is there.
add_parent_node(heap, self, node_parent) ==
    IF ~NodeIn(heap, node_parent, heap[self].list_nodes_parent)
    THEN [heap EXCEPT ![self].list_nodes_parent = Append(@, node_parent)]
    ELSE heap

\* An add_child_node that forgets to append.
add_child_node_never(heap, self, node_child) == heap

\* An add_child_node that assigns the list in place of appending to it.
add_child_node_overwriting(heap, self, node_child) ==
    IF ~NodeIn(heap, node_child, heap[self].list_nodes_child)
    THEN [heap EXCEPT ![self].list_nodes_child = <<node_child>>]
    ELSE heap

\* ReachNode.add_child_node: append unless a node of that id is there.
add_child_node(heap, self, node_child) ==
    IF ~NodeIn(heap, node_child, heap[self].list_nodes_child)
    THEN [heap EXCEPT ![self].list_nodes_child = Append(@, node_child)]
    ELSE heap

\* list.remove(node) under __eq__: drop the first element of that id.
RemoveFirst(heap, list, ref) ==
    LET hit == {i \in DOMAIN list : heap[list[i]].id = heap[ref].id}
    IN IF hit = {} THEN list
       ELSE SubSeq(list, 1, Min(hit) - 1) \o SubSeq(list, Min(hit) + 1, Len(list))

\* A remove_child_node that leaves the list as it is.
remove_child_node_never(heap, self, node_child) == heap

\* ReachNode.remove_child_node.
remove_child_node(heap, self, node_child) ==
    [heap EXCEPT ![self].list_nodes_child = RemoveFirst(heap, @, node_child)]

\* ReachNode.remove_parent_node.
remove_parent_node(heap, self, node_parent) ==
    [heap EXCEPT ![self].list_nodes_parent = RemoveFirst(heap, @, node_parent)]

\* An intersect_in_position_domain that cuts nothing.
intersect_in_no_domain(node, p_lon_min, p_lat_min, p_lon_max, p_lat_max) == node

\* ReachNode.intersect_in_position_domain: both polygons are cut to the
\* rectangle; the bounds read at construction stay as they were.
intersect_in_position_domain(node, p_lon_min, p_lat_min, p_lon_max, p_lat_max) ==
    [node EXCEPT
       !.polygon_lon = intersect_halfspace(intersect_halfspace(@, 1, 0, p_lon_max),
                                           -1, 0, -p_lon_min),
       !.polygon_lat = intersect_halfspace(intersect_halfspace(@, 1, 0, p_lat_max),
                                           -1, 0, -p_lat_min)]

\* ------------------------------------------------ ReachabilityAnalysis
\* _initialize_zero_state_polygons.
polygon_zero_state_lon(cfg) == create_zero_state_polygon(cfg.dt, Ego.a_lon_min, Ego.a_lon_max)

polygon_zero_state_lat(cfg) == create_zero_state_polygon(cfg.dt, Ego.a_lat_min, Ego.a_lat_max)

\* initial_drivable_area: one rectangle, the initial position +- its uncertainty.
initial_drivable_area(cfg) ==
    << <<cfg.p_lon_initial - cfg.uncertainty_p_lon, cfg.p_lat_initial - cfg.uncertainty_p_lat,
         cfg.p_lon_initial + cfg.uncertainty_p_lon, cfg.p_lat_initial + cfg.uncertainty_p_lat>> >>

\* initial_reachable_set: one node, its polygons the rectangles of the initial
\* state +- its uncertainties; no clipping to the velocity band.
initial_reachable_set(cfg, id) ==
    ReachNode(from_rectangle_vertices(cfg.p_lon_initial - cfg.uncertainty_p_lon,
                                      cfg.v_lon_initial - cfg.uncertainty_v_lon,
                                      cfg.p_lon_initial + cfg.uncertainty_p_lon,
                                      cfg.v_lon_initial + cfg.uncertainty_v_lon),
              from_rectangle_vertices(cfg.p_lat_initial - cfg.uncertainty_p_lat,
                                      cfg.v_lat_initial - cfg.uncertainty_v_lat,
                                      cfg.p_lat_initial + cfg.uncertainty_p_lat,
                                      cfg.v_lat_initial + cfg.uncertainty_v_lat),
              cfg.step_start, id)

RECURSIVE propagate_reachable_set_lat_bounds(_, _, _, _)
\* A _propagate_reachable_set that gives the lateral velocity bounds to both
\* propagations.
propagate_reachable_set_lat_bounds(cfg, heap, list_nodes, id) ==
    IF list_nodes = <<>> THEN <<>>
    ELSE LET node == heap[Head(list_nodes)]
             polygon_lon_propagated ==
                 propagate_polygon(node.polygon_lon, polygon_zero_state_lon(cfg), cfg.dt,
                                   Ego.v_lat_min, Ego.v_lat_max)
             polygon_lat_propagated ==
                 propagate_polygon(node.polygon_lat, polygon_zero_state_lat(cfg), cfg.dt,
                                   Ego.v_lat_min, Ego.v_lat_max)
         IN IF polygon_lon_propagated = {} \/ polygon_lat_propagated = {}
            THEN propagate_reachable_set_lat_bounds(cfg, heap, Tail(list_nodes), id)
            ELSE << [ReachNode(polygon_lon_propagated, polygon_lat_propagated,
                               node.time_step, id)
                       EXCEPT !.source_propagation = Head(list_nodes)] >>
                 \o propagate_reachable_set_lat_bounds(cfg, heap, Tail(list_nodes), id + 1)

RECURSIVE propagate_reachable_set_until_failure(_, _, _, _)
\* A _propagate_reachable_set that gives up at the first node one of whose
\* polygons fails.
propagate_reachable_set_until_failure(cfg, heap, list_nodes, id) ==
    IF list_nodes = <<>> THEN <<>>
    ELSE LET node == heap[Head(list_nodes)]
             polygon_lon_propagated ==
                 propagate_polygon(node.polygon_lon, polygon_zero_state_lon(cfg), cfg.dt,
                                   Ego.v_lon_min, Ego.v_lon_max)
             polygon_lat_propagated ==
                 propagate_polygon(node.polygon_lat, polygon_zero_state_lat(cfg), cfg.dt,
                                   Ego.v_lat_min, Ego.v_lat_max)
         IN IF polygon_lon_propagated = {} \/ polygon_lat_propagated = {}
            THEN <<>>
            ELSE << [ReachNode(polygon_lon_propagated, polygon_lat_propagated,
                               node.time_step, id)
                       EXCEPT !.source_propagation = Head(list_nodes)] >>
                 \o propagate_reachable_set_until_failure(cfg, heap, Tail(list_nodes), id + 1)

RECURSIVE propagate_reachable_set(_, _, _, _)
\* _propagate_reachable_set(list_nodes): each node's two polygons are
\* propagated; a node one of whose polygons fails is passed over (and takes no
\* id); every other gives a base set at the node's own time step, its
\* source_propagation the node.
propagate_reachable_set(cfg, heap, list_nodes, id) ==
    IF list_nodes = <<>> THEN <<>>
    ELSE LET node == heap[Head(list_nodes)]
             polygon_lon_propagated ==
                 propagate_polygon(node.polygon_lon, polygon_zero_state_lon(cfg), cfg.dt,
                                   Ego.v_lon_min, Ego.v_lon_max)
             polygon_lat_propagated ==
                 propagate_polygon(node.polygon_lat, polygon_zero_state_lat(cfg), cfg.dt,
                                   Ego.v_lat_min, Ego.v_lat_max)
         IN IF polygon_lon_propagated = {} \/ polygon_lat_propagated = {}
            THEN propagate_reachable_set(cfg, heap, Tail(list_nodes), id)
            ELSE << [ReachNode(polygon_lon_propagated, polygon_lat_propagated,
                               node.time_step, id)
                       EXCEPT !.source_propagation = Head(list_nodes)] >>
                 \o propagate_reachable_set(cfg, heap, Tail(list_nodes), id + 1)

\* project_base_sets_to_position_domain.
project_base_sets_to_position_domain(list_base_sets_propagated) ==
    [i \in DOMAIN list_base_sets_propagated |->
        position_rectangle(list_base_sets_propagated[i])]

\* A compute_drivable_area_at_time_step that falls back to the initial drivable
\* area when the reachable set of the step before is empty.
compute_drivable_area_or_initial(cfg, heap, time_step, reachable_set_previous, id) ==
    IF Len(reachable_set_previous) < 1
    THEN [drivable_area |-> initial_drivable_area(cfg), propagated |-> <<>>]
    ELSE [drivable_area |-> <<>>, propagated |-> <<>>]

\* compute_drivable_area_at_time_step(time_step, reachable_set_previous):
\* propagate, project, repartition, collision check and split, repartition.
compute_drivable_area_at_time_step(cfg, heap, time_step, reachable_set_previous, id) ==
    IF Len(reachable_set_previous) < 1
    THEN [drivable_area |-> <<>>, propagated |-> <<>>]
    ELSE LET list_base_sets_propagated ==
                 propagate_reachable_set(cfg, heap, reachable_set_previous, id)
             list_rectangles_projected ==
                 project_base_sets_to_position_domain(list_base_sets_propagated)
             list_rectangles_repartitioned ==
                 create_repartitioned_rectangles(list_rectangles_projected, cfg.size_grid)
             list_rectangles_collision_free ==
                 check_collision_and_split_rectangles(cfg, time_step,
                                                      list_rectangles_repartitioned,
                                                      cfg.radius_terminal_split)
         IN [drivable_area |->
                 create_repartitioned_rectangles(list_rectangles_collision_free,
                                                 cfg.size_grid_2nd),
             propagated |-> list_base_sets_propagated]

\* adapt_base_sets_to_drivable_area: per rectangle of the drivable area, the
\* propagated base sets that overlap it, each cut to the rectangle; the adapted
\* base set is the hull of the non-empty cuts and remembers their sources.
adapt_base_sets_to_drivable_area(drivable_area, list_base_sets_propagated) ==
    LET Cut(i, k) ==
            intersect_in_position_domain(list_base_sets_propagated[k],
                                         drivable_area[i][1], drivable_area[i][2],
                                         drivable_area[i][3], drivable_area[i][4])
        Contributes(i, k) ==
            /\ Intersects(drivable_area[i], position_rectangle(list_base_sets_propagated[k]))
            /\ Cut(i, k).polygon_lon # {}
            /\ Cut(i, k).polygon_lat # {}
        Adapted(i) ==
            LET ks == {k \in DOMAIN list_base_sets_propagated : Contributes(i, k)}
            IN [rectangle |-> drivable_area[i],
                polygon_lon |-> convex_hull({Cut(i, k).polygon_lon : k \in ks}),
                polygon_lat |-> convex_hull({Cut(i, k).polygon_lat : k \in ks}),
                source_propagation |->
                    LET all == [k \in DOMAIN list_base_sets_propagated |->
                                   list_base_sets_propagated[k].source_propagation]
                    IN [j \in 1..Cardinality(ks) |->
                           all[CHOOSE k \in ks : Cardinality({m \in ks : m < k}) = j - 1]]]
        all_adapted == [i \in DOMAIN drivable_area |-> Adapted(i)]
    IN SelectSeq(all_adapted, LAMBDA b : b.source_propagation # <<>>)

RECURSIVE create_nodes_of_reachable_set(_, _, _, _)
\* create_nodes_of_reachable_set(time_step, list_base_sets_adapted): one node
\* per adapted base set, linked both ways with each of its sources.  Returns
\* the heap with the new nodes at its end.
create_nodes_of_reachable_set(heap, time_step, list_base_sets_adapted, id) ==
    IF list_base_sets_adapted = <<>> THEN heap
    ELSE LET base_set == Head(list_base_sets_adapted)
             node_child == Len(heap) + 1
             heap1 == Append(heap, ReachNode(base_set.polygon_lon, base_set.polygon_lat,
                                             time_step, id))
             Link[j \in 0..Len(base_set.source_propagation)] ==
                 IF j = 0 THEN heap1
                 ELSE add_child_node(
                          add_parent_node(Link[j - 1], node_child,
                                          base_set.source_propagation[j]),
                          base_set.source_propagation[j], node_child)
         IN create_nodes_of_reachable_set(Link[Len(base_set.source_propagation)], time_step,
                                          Tail(list_base_sets_adapted), id + 1)

\* compute_reachable_set_at_time_step(time_step, base_set_propagated, drivable_area):
\* nothing for an empty drivable area; else adapt and create the nodes.
compute_reachable_set_at_time_step(heap, time_step, base_set_propagated, drivable_area, id) ==
    IF drivable_area = <<>> THEN heap
    ELSE create_nodes_of_reachable_set(
             heap, time_step,
             adapt_base_sets_to_drivable_area(drivable_area, base_set_propagated), id)

\* ------------------------------------------------------ defaultdict
\* A defaultdict(list): reading a missing key gives [] and adds the key.
Get(dict, key) == IF key \in DOMAIN dict THEN dict[key] ELSE <<>>

Touch(dict, key) == IF key \in DOMAIN dict THEN dict ELSE (key :> <<>>) @@ dict

Put(dict, key, value) == (key :> value) @@ dict

\* ------------------------------------------- DrivingCorridorExtractor
\* DIGITS, the scaling factor of the comparisons (10 ** DIGITS).
DIGITS == 2

\* A tick of position is a thousandth of the length unit, so a coordinate x
\* of the source is x / 1000.  math.floor(x * 10.0 ** DIGITS).
floor_scaled(x) == FloorDiv(x * 10 ^ DIGITS, 1000)

\* math.ceil(x * 10.0 ** DIGITS).
ceil_scaled(x) == CeilDiv(x * 10 ^ DIGITS, 1000)

\* round(x * 10.0 ** DIGITS): to the nearest integer, a half to the even one.
round_scaled(x) ==
    LET q == FloorDiv(x * 10 ^ DIGITS, 1000)
        r == x * 10 ^ DIGITS - q * 1000
    IN IF 2 * r < 1000 THEN q
       ELSE IF 2 * r > 1000 THEN q + 1
       ELSE IF q % 2 = 0 THEN q ELSE q + 1

\* The position rectangle scaled by 10 ** DIGITS and snapped outward to integers.
ScaledRectangle(node) ==
    LET r == position_rectangle(node)
    IN <<floor_scaled(r[1]), floor_scaled(r[2]), ceil_scaled(r[3]), ceil_scaled(r[4])>>

\* connected_reachset_py(nodes, DIGITS): two nodes are connected when their
\* scaled position rectangles touch or overlap.
connected_reachset_py(heap, n, m) ==
    Intersects(ScaledRectangle(heap[n]), ScaledRectangle(heap[m]))

\* Area of a position rectangle, in square ticks.
Area(r) == (r[3] - r[1]) * (r[4] - r[2])

RECURSIVE area_of_reachable_set(_, _)
\* util_geometry.area_of_reachable_set(nodes): the areas of the position
\* rectangles, added up.
area_of_reachable_set(heap, list_nodes) ==
    IF list_nodes = <<>> THEN 0
    ELSE Area(position_rectangle(heap[Head(list_nodes)]))
             + area_of_reachable_set(heap, Tail(list_nodes))

\* A sort that keeps the order it is given.
Unsorted(pairs) == [i \in DOMAIN pairs |-> pairs[i].elem]

\* [elem for _, elem in sorted(pairs, key=lambda pair: pair[0], reverse=True)]:
\* by key, largest first; equal keys keep their order.
SortedDescending(pairs) ==
    LET place(i) == 1 + Cardinality({j \in DOMAIN pairs : pairs[j].key > pairs[i].key})
                      + Cardinality({j \in DOMAIN pairs : j < i /\ pairs[j].key = pairs[i].key})
    IN [k \in DOMAIN pairs |-> pairs[CHOOSE i \in DOMAIN pairs : place(i) = k].elem]

RECURSIVE ListOf(_)
\* A set of nodes (or of steps) as the list the extractor makes of it,
\* list(set) or sorted(keys); the order taken for nodes is that of creation.
ListOf(S) == IF S = {} THEN <<>> ELSE <<Min(S)>> \o ListOf(S \ {Min(S)})

RECURSIVE Grow(_, _, _)
\* nx.connected_components: the nodes of S that the nodes of C connect to.
Grow(heap, S, C) ==
    LET N == {m \in S \ C : \E c \in C : connected_reachset_py(heap, c, m)}
    IN IF N = {} THEN C ELSE Grow(heap, S, C \cup N)

RECURSIVE ComponentsInOrder(_, _)
\* The connected components of the list, each in the order of the list, the
\* components in the order of their first nodes.
ComponentsInOrder(heap, list) ==
    IF list = <<>> THEN <<>>
    ELSE LET C == Grow(heap, Range(list), {Head(list)})
         IN <<SelectSeq(list, LAMBDA n : n \in C)>>
                \o ComponentsInOrder(heap, SelectSeq(list, LAMBDA n : n \notin C))

\* sorted(zip(heuristic, connected_reach_sets), ...): the components by the
\* area of their position rectangles, largest first.
ByArea(heap, connected_reach_sets) ==
    SortedDescending([i \in DOMAIN connected_reach_sets |->
                         [key |-> area_of_reachable_set(heap, connected_reach_sets[i]),
                          elem |-> connected_reach_sets[i]]])

\* _determine_connected_components(reach_set_nodes, remove_small): the
\* components, without those of at most 2 nodes and area below 0.05 (of the
\* squared length unit, 1000 * 1000 square ticks) when remove_small, by area,
\* largest first.
determine_connected_components(heap, reach_set_nodes, remove_small) ==
    ByArea(heap, SelectSeq(ComponentsInOrder(heap, reach_set_nodes), LAMBDA c :
                     ~(remove_small /\ Len(c) <= 2
                       /\ area_of_reachable_set(heap, c) < (5 * 1000 * 1000) \div 100)))

\* An overlap test that takes every node.
overlap_with_any_position(heap, reach_set_nodes, lon_pos) == Range(reach_set_nodes)

\* _determine_reachset_overlap_with_longitudinal_position(reach_set_nodes, lon_pos):
\* round(lon_pos * 10^DIGITS) >= floor(x_min * 10^DIGITS) and
\* ceil(x_max * 10^DIGITS) >= round(lon_pos * 10^DIGITS).
determine_reachset_overlap_with_longitudinal_position(heap, reach_set_nodes, lon_pos) ==
    {n \in Range(reach_set_nodes) :
        /\ round_scaled(lon_pos) >= floor_scaled(position_rectangle(heap[n])[1])
        /\ ceil_scaled(position_rectangle(heap[n])[3]) >= round_scaled(lon_pos)}

\* _determine_terminal_set_overlap(terminal_set, reach_set_nodes): the nodes
\* whose position rectangle overlaps the terminal set (a rectangle here).
determine_terminal_set_overlap(heap, terminal_set, reach_set_nodes) ==
    {n \in Range(reach_set_nodes) : Intersects(terminal_set, position_rectangle(heap[n]))}

\* _determine_area_of_driving_corridor(driving_corridor): the areas of its
\* steps, added up.
determine_area_of_driving_corridor(heap, driving_corridor) ==
    LET steps == ListOf(DOMAIN driving_corridor)
        Sum[k \in 0..Len(steps)] ==
            IF k = 0 THEN 0
            ELSE Sum[k - 1] + area_of_reachable_set(heap, driving_corridor[steps[k]])
    IN Sum[Len(steps)]

RECURSIVE PathTo(_, _)
\* The path of the graph from the node node_id to the node 1, along the edges.
PathTo(graph, node_id) ==
    IF node_id = 1 THEN <<1>> ELSE <<node_id>> \o PathTo(graph, graph[node_id].edge_to)

\* nx.all_simple_paths(graph, node_id, 1): every node but 1 has one edge, to
\* the node it was found from, so there is one path; none from 1 to itself.
all_simple_paths(graph, node_id) ==
    IF node_id = 1 THEN <<>> ELSE <<PathTo(graph, node_id)>>

\* A search that ends when more than 11 corridors are found.
search_is_over_after_twelve(driving_corridors_list) == Len(driving_corridors_list) > 11

\* "Terminate if more than 10 driving corridors found".
search_is_over(driving_corridors_list) == Len(driving_corridors_list) > 10

\* The nodes of the step before the component's, whether parents or not.
parents_and_their_neighbours(heap, reach_set_nodes) ==
    LET parents == UNION {Range(heap[n].list_nodes_parent) : n \in Range(reach_set_nodes)}
    IN {m \in DOMAIN heap : \E q \in parents : heap[m].time_step = heap[q].time_step}

\* parent_reach_set_nodes: the parents of the nodes of the component, as a set.
parent_reach_set_nodes(heap, reach_set_nodes) ==
    UNION {Range(heap[n].list_nodes_parent) : n \in Range(reach_set_nodes)}

RECURSIVE create_reachset_connected_components_graph_backwards(_, _, _, _, _, _, _, _)
RECURSIVE RecurseBackwards(_, _, _, _, _, _, _, _)
\* _create_reachset_connected_components_graph_backwards(driving_corridors_list,
\* graph, node_id, time_idx, reach_set_nodes, lon_pos, lon_driving_corridor).
\* st holds the list of corridors found, the graph and whether an error was
\* raised.  lon_pos and lon_driving_corridor are <<>> for None, <<value>> else.
create_reachset_connected_components_graph_backwards(heap, time_steps, st, node_id, time_idx, reach_set_nodes, lon_pos, lon_driving_corridor) ==
    IF (lon_pos = <<>>) # (lon_driving_corridor = <<>>)
    THEN [st EXCEPT !.raised = "ValueError"]
    ELSE IF search_is_over(st.driving_corridors_list) THEN st
    ELSE IF time_idx = time_steps[1]
    THEN [st EXCEPT !.driving_corridors_list = @ \o all_simple_paths(st.graph, node_id)]
    ELSE IF lon_pos # <<>> /\ (time_idx - 1) \notin DOMAIN lon_pos[1]
    THEN [st EXCEPT !.raised = "KeyError"]
    ELSE LET parents == parent_reach_set_nodes(heap, reach_set_nodes)
             filtered ==
                 IF lon_pos # <<>>
                 THEN determine_reachset_overlap_with_longitudinal_position(
                          heap, ListOf(parents), lon_pos[1][time_idx - 1])
                      \cap Range(Get(lon_driving_corridor[1], time_idx - 1))
                 ELSE parents
         IN RecurseBackwards(heap, time_steps, st, node_id, time_idx,
                             determine_connected_components(heap, ListOf(filtered),
                                                            time_idx > 5),
                             lon_pos, lon_driving_corridor)

\* for cc in connected_components: a node of the graph for cc, an edge to the
\* node it was found from, and the search goes on from cc.
RecurseBackwards(heap, time_steps, st, node_id, time_idx, connected_components, lon_pos, lon_driving_corridor) ==
    IF connected_components = <<>> \/ st.raised # "" THEN st
    ELSE LET cc == Head(connected_components)
             child_id == Len(st.graph) + 1
             st1 == [st EXCEPT !.graph = Append(@, [time_idx |-> time_idx - 1,
                                                    reach_set |-> cc,
                                                    edge_to |-> node_id])]
         IN RecurseBackwards(
                heap, time_steps,
                create_reachset_connected_components_graph_backwards(
                    heap, time_steps, st1, child_id, time_idx - 1, cc, lon_pos,
                    lon_driving_corridor),
                node_id, time_idx, Tail(connected_components), lon_pos,
                lon_driving_corridor)

\* Per path found, the map step -> nodes of the path's components (dc_dict).
DictsOfPaths(st) ==
    LET dc_dict(dc) ==
            [t \in {st.graph[id].time_idx : id \in Range(dc)} |->
                st.graph[CHOOSE id \in Range(dc) : st.graph[id].time_idx = t].reach_set]
    IN [raised |-> st.raised,
        corridors |-> [k \in DOMAIN st.driving_corridors_list |->
                          dc_dict(st.driving_corridors_list[k])]]

\* The corridors of one seed component cc: the search from the node 1 of a new
\* graph, then the maps of the paths found.
CorridorsOfSeed(heap, time_steps, cc, lon_pos, lon_driving_corridor) ==
    DictsOfPaths(create_reachset_connected_components_graph_backwards(
                     heap, time_steps,
                     [driving_corridors_list |-> <<>>,
                      graph |-> <<[time_idx |-> time_steps[Len(time_steps)], reach_set |-> cc,
                                   edge_to |-> 0]>>,
                      raised |-> ""],
                     1, time_steps[Len(time_steps)], cc, lon_pos, lon_driving_corridor))

\* A dispatch that takes one lateral argument alone for none.
extract_mode_lenient(lon_positions, lon_driving_corridor) ==
    IF lon_positions # <<>> /\ lon_driving_corridor # <<>> THEN "lateral" ELSE "longitudinal"

\* The branch _extract_driving_corridors takes for its two lateral arguments.
extract_mode(lon_positions, lon_driving_corridor) ==
    IF lon_positions = <<>> /\ lon_driving_corridor = <<>> THEN "longitudinal"
    ELSE IF lon_positions # <<>> /\ lon_driving_corridor # <<>> THEN "lateral"
    ELSE "ValueError"

\* sorted(zip(heuristic, driving_corridor_list), ...): the corridors by their
\* cumulative area, largest first.
ByCumulativeArea(heap, driving_corridor_list) ==
    SortedDescending([k \in DOMAIN driving_corridor_list |->
                         [key |-> determine_area_of_driving_corridor(heap,
                                                                     driving_corridor_list[k]),
                          elem |-> driving_corridor_list[k]]])

\* What _extract_driving_corridors gives once the seeds are searched: the error
\* a search raised, or the corridors of all seeds in one list, ranked.
RankedCorridors(heap, mode, per_seed) ==
    IF \E i \in DOMAIN per_seed : per_seed[i].raised # ""
    THEN [path |-> mode,
          raised |-> per_seed[CHOOSE i \in DOMAIN per_seed : per_seed[i].raised # ""].raised,
          ret |-> <<>>]
    ELSE [path |-> mode, raised |-> "",
          ret |-> ByCumulativeArea(heap, Concat([i \in DOMAIN per_seed |->
                                                    per_seed[i].corridors]))]

\* for cc in connected_components: the search from each seed component.
SearchFromSeeds(heap, time_steps, mode, connected_components, lon_pos, lon_driving_corridor) ==
    RankedCorridors(heap, mode,
                    [i \in DOMAIN connected_components |->
                        CorridorsOfSeed(heap, time_steps, connected_components[i], lon_pos,
                                        lon_driving_corridor)])

\* _extract_driving_corridors(terminal_set, lon_positions, lon_driving_corridor)
\* of an extractor that holds reach_set and time_steps.  An argument is <<>>
\* for None, <<value>> else.  Gives the branch taken, the error raised ("" for
\* none) and the list returned.
extract_driving_corridors(heap, reach_set, time_steps, terminal_set, lon_positions, lon_driving_corridor) ==
    LET mode == extract_mode(lon_positions, lon_driving_corridor)
        time_end == time_steps[Len(time_steps)]
        lon_positions_dict ==
            [t \in Range(time_steps) |->
                lon_positions[1][CHOOSE k \in DOMAIN time_steps : time_steps[k] = t]]
    IN IF mode = "ValueError"
       THEN [path |-> "ValueError", raised |-> "ValueError", ret |-> <<>>]
       ELSE IF mode = "lateral" /\ Len(lon_positions[1]) # Len(time_steps)
       THEN [path |-> "lateral", raised |-> "AssertionError", ret |-> <<>>]
       ELSE SearchFromSeeds(
                heap, time_steps, mode,
                determine_connected_components(
                    heap,
                    IF mode = "lateral"
                    THEN ListOf(determine_reachset_overlap_with_longitudinal_position(
                                    heap, Get(lon_driving_corridor[1], time_end),
                                    lon_positions_dict[time_end]))
                    ELSE IF terminal_set # <<>>
                    THEN ListOf(determine_terminal_set_overlap(heap, terminal_set[1],
                                                               Get(reach_set, time_end)))
                    ELSE Get(reach_set, time_end),
                    FALSE),
                IF mode = "lateral" THEN <<lon_positions_dict>> ELSE <<>>,
                IF mode = "lateral" THEN lon_driving_corridor ELSE <<>>)

\* ---------------------------------------------------------------- state
VARIABLES
    config,                            \* ReachableSetInterface.config
    reach,                             \* ReachableSetInterface._reach is set
    reachable_set_computed,            \* ReachableSetInterface._reachable_set_computed
    driving_corridor_extractor,        \* ReachableSetInterface._driving_corridor_extractor is set
    step_start,                        \* ReachableSet.step_start
    step_end,                          \* ReachableSet.step_end
    dict_time_to_base_set_propagated,  \* ReachableSet: step -> propagated base sets
    dict_time_to_drivable_area,        \* ReachableSet: step -> rectangles
    dict_time_to_reachable_set,        \* ReachableSet: step -> nodes (places in the heap)
    list_steps_computed,               \* ReachableSet._list_steps_computed
    pruned,                            \* ReachableSet._pruned
    heap,                              \* the reach nodes of the current reachable set
    cnt_id,                            \* ReachNode.cnt_id, the class counter
    pc,                                \* where the interface is: idle, or inside compute
    step,                              \* compute's loop variable
    compute_start,                     \* compute's step_start argument
    compute_end,                       \* compute's step_end argument
    last,                              \* the last call of the caller and its outcome
    n_computes,                        \* accepted compute calls so far
    n_resets,                          \* reset calls so far
    time_steps                         \* DrivingCorridorExtractor.time_steps

vars ==
    <<config, reach, reachable_set_computed, driving_corridor_extractor, step_start,
      step_end, dict_time_to_base_set_propagated, dict_time_to_drivable_area,
      dict_time_to_reachable_set, list_steps_computed, pruned, heap, cnt_id, pc, step,
      compute_start, compute_end, last, n_computes, n_resets, time_steps>>

\* The interface's corridor extractor: whether there is one, and the steps it
\* read from the reachable sets when it was made.
extractor_vars == <<driving_corridor_extractor, time_steps>>

\* The variables of the ReachableSet object and its nodes.
reach_vars ==
    <<step_start, step_end, dict_time_to_base_set_propagated, dict_time_to_drivable_area,
      dict_time_to_reachable_set, list_steps_computed, pruned, heap, cnt_id>>

loop_vars == <<pc, step, compute_start, compute_end>>

\* The steps a caller asks about, and the arguments it gives compute.
QuerySteps == 0..(MaxHorizon + 1)

StartArgs == -1..(MaxHorizon - 1)

EndArgs == 0..MaxHorizon

\* What a call leaves in `last`.
Call(op, a, b, ret, path, raised) ==
    [op |-> op, a |-> a, b |-> b, ret |-> ret, path |-> path, raised |-> raised]

\* What a call of the extractor leaves in `last`: r is what the extraction gave.
CallOf(op, a, b, r) == Call(op, a, b, r.ret, r.path, r.raised # "")

\* ------------------------------------------------------- ReachableSet
\* ReachableSet.__init__ and the polytopic engine's initialisation: the
\* horizon from the configuration, empty maps, steps computed = [0]; the
\* initial drivable area and the initial node are stored at step_start.
InstantiateReach(cfg) ==
    /\ step_start' = cfg.step_start
    /\ step_end' = cfg.steps_computation + cfg.step_start
    /\ dict_time_to_base_set_propagated' = <<>>
    /\ dict_time_to_drivable_area' = (cfg.step_start :> initial_drivable_area(cfg))
    /\ dict_time_to_reachable_set' = (cfg.step_start :> <<1>>)
    /\ heap' = <<initial_reachable_set(cfg, cnt_id)>>
    /\ cnt_id' = cnt_id + 1
    /\ list_steps_computed' = <<0>>
    /\ pruned' = FALSE

\* The interface has no reachable set (_reach is None): nothing is stored.  The
\* class counter of the nodes is not the reachable set's and lives on.
NoReach ==
    /\ step_start' = 0
    /\ step_end' = 0
    /\ dict_time_to_base_set_propagated' = <<>>
    /\ dict_time_to_drivable_area' = <<>>
    /\ dict_time_to_reachable_set' = <<>>
    /\ heap' = <<>>
    /\ list_steps_computed' = <<>>
    /\ pruned' = FALSE
    /\ UNCHANGED cnt_id

\* ReachableSet.drivable_area_at_step / reachable_set_at_step, the branch taken:
\* [] and a warning for a step that is not among the computed ones, else the
\* map's entry (a defaultdict read, which adds a missing key).
ReachPath(s) == IF s \notin Range(list_steps_computed) THEN "out_of_range" ELSE "stored"

\* ReachableSet.drivable_area_at_step(step).
ReachDrivableAreaAtStep(s) ==
    /\ last' = Call("drivable_area_at_step", s, 0,
                    IF ReachPath(s) = "stored" THEN Get(dict_time_to_drivable_area, s) ELSE <<>>,
                    ReachPath(s), FALSE)
    /\ dict_time_to_drivable_area' =
           IF ReachPath(s) = "stored" THEN Touch(dict_time_to_drivable_area, s)
           ELSE dict_time_to_drivable_area

\* ReachableSet.reachable_set_at_step(step).
ReachReachableSetAtStep(s) ==
    /\ last' = Call("reachable_set_at_step", s, 0,
                    IF ReachPath(s) = "stored" THEN Get(dict_time_to_reachable_set, s) ELSE <<>>,
                    ReachPath(s), FALSE)
    /\ dict_time_to_reachable_set' =
           IF ReachPath(s) = "stored" THEN Touch(dict_time_to_reachable_set, s)
           ELSE dict_time_to_reachable_set

\* ------------------------------------------------ ReachableSetInterface
Init ==
    /\ config \in Configurations
    /\ reach = TRUE
    /\ reachable_set_computed = FALSE
    /\ driving_corridor_extractor = FALSE
    /\ time_steps = <<>>
    /\ step_start = config.step_start
    /\ step_end = config.steps_computation + config.step_start
    /\ dict_time_to_base_set_propagated = <<>>
    /\ dict_time_to_drivable_area = (config.step_start :> initial_drivable_area(config))
    /\ dict_time_to_reachable_set = (config.step_start :> <<1>>)
    /\ heap = <<initial_reachable_set(config, 0)>>
    /\ cnt_id = 1
    /\ list_steps_computed = <<0>>
    /\ pruned = FALSE
    /\ pc = "idle"
    /\ step = 0
    /\ compute_start = 0
    /\ compute_end = 0
    /\ last = Call("init", 0, 0, <<>>, "", FALSE)
    /\ n_computes = 0
    /\ n_resets = 0

\* reset(config): the interface forgets its reachable set; a valid mode gives
\* a new one, any other mode raises and leaves the interface without one.
Reset(cfg) ==
    /\ pc = "idle"
    /\ n_resets < MaxResets
    /\ n_resets' = n_resets + 1
    /\ config' = cfg
    /\ reachable_set_computed' = FALSE
    /\ driving_corridor_extractor' = FALSE
    /\ time_steps' = <<>>
    /\ IF cfg.mode_computation \in {1, 2, 3, 4}
       THEN /\ reach' = TRUE
            /\ InstantiateReach(cfg)
            /\ last' = Call("reset", 0, 0, <<>>, "", FALSE)
       ELSE /\ reach' = FALSE
            /\ last' = Call("reset", 0, 0, <<>>, "invalid_mode", TRUE)
            /\ NoReach
    /\ UNCHANGED <<loop_vars, n_computes>>

\* The branch a query of the interface takes: [] and a warning while nothing
\* is computed and the step is not 0; else the call goes to the reachable set,
\* which is None after a reset that raised.
InterfacePath(s) ==
    IF ~reachable_set_computed /\ s # 0 THEN "not_computed"
    ELSE IF ~reach THEN "AttributeError"
    ELSE ReachPath(s)

\* drivable_area_at_step(step).
DrivableAreaAtStep(s) ==
    /\ pc = "idle"
    /\ IF InterfacePath(s) = "not_computed"
       THEN /\ last' = Call("drivable_area_at_step", s, 0, <<>>, "not_computed", FALSE)
            /\ UNCHANGED dict_time_to_drivable_area
       ELSE IF InterfacePath(s) = "AttributeError"
            THEN /\ last' = Call("drivable_area_at_step", s, 0, <<>>, "AttributeError", TRUE)
                 /\ UNCHANGED dict_time_to_drivable_area
            ELSE ReachDrivableAreaAtStep(s)
    /\ UNCHANGED <<config, reach, reachable_set_computed, extractor_vars,
                   step_start, step_end, dict_time_to_base_set_propagated,
                   dict_time_to_reachable_set, list_steps_computed, pruned, heap, cnt_id,
                   loop_vars, n_computes, n_resets>>

\* reachable_set_at_step(step).
ReachableSetAtStep(s) ==
    /\ pc = "idle"
    /\ IF InterfacePath(s) = "not_computed"
       THEN /\ last' = Call("reachable_set_at_step", s, 0, <<>>, "not_computed", FALSE)
            /\ UNCHANGED dict_time_to_reachable_set
       ELSE IF InterfacePath(s) = "AttributeError"
            THEN /\ last' = Call("reachable_set_at_step", s, 0, <<>>, "AttributeError", TRUE)
                 /\ UNCHANGED dict_time_to_reachable_set
            ELSE ReachReachableSetAtStep(s)
    /\ UNCHANGED <<config, reach, reachable_set_computed, extractor_vars,
                   step_start, step_end, dict_time_to_base_set_propagated,
                   dict_time_to_drivable_area, list_steps_computed, pruned, heap, cnt_id,
                   loop_vars, n_computes, n_resets>>

\* extract_driving_corridors(), every argument at its default: a warning and
\* [] when the map of reachable sets is empty; else the extractor is made if
\* there is none (it reads the steps of the map, once) and the longitudinal
\* corridors are extracted.  Without a reachable set (_reach is None) reading
\* the map raises.
ExtractDrivingCorridors ==
    /\ pc = "idle"
    /\ IF ~reach
       THEN /\ last' = Call("extract_driving_corridors", 0, 0, <<>>, "AttributeError", TRUE)
            /\ UNCHANGED extractor_vars
       ELSE IF DOMAIN dict_time_to_reachable_set = {}
       THEN /\ last' = Call("extract_driving_corridors", 0, 0, <<>>, "empty", FALSE)
            /\ UNCHANGED extractor_vars
       ELSE LET steps == IF driving_corridor_extractor THEN time_steps
                         ELSE ListOf(DOMAIN dict_time_to_reachable_set)
                r == extract_driving_corridors(heap, dict_time_to_reachable_set, steps,
                                               <<>>, <<>>, <<>>)
            IN /\ driving_corridor_extractor' = TRUE
               /\ time_steps' = steps
               /\ last' = CallOf("extract_driving_corridors", 0, 0, r)
    /\ UNCHANGED <<config, reach, reachable_set_computed, reach_vars, loop_vars,
                   n_computes, n_resets>>

\* A horizon test that lets step_start 0 through.
ValidStepsFromZero(a, e) == 0 <= a /\ a < e

\* The horizon compute_reachable_sets accepts.
ValidSteps(a, e) == 0 < a /\ a < e

\* compute_reachable_sets(step_start, step_end): nothing without a reachable
\* set; step_end 0 stands for the configured step_end; a horizon that is not
\* 0 < step_start < step_end is refused with a warning.  Both refusals and the
\* completed computation return None.
ComputeReachableSets(a, b) ==
    /\ pc = "idle"
    /\ IF ~reach
       THEN /\ last' = Call("compute_reachable_sets", a, b, "None", "not_initialized", FALSE)
            /\ UNCHANGED <<loop_vars, n_computes>>
       ELSE LET e == IF b # 0 THEN b ELSE step_end
            IN IF ~ValidSteps(a, e)
               THEN /\ last' = Call("compute_reachable_sets", a, b, "None",
                                    "invalid_steps", FALSE)
                    /\ UNCHANGED <<loop_vars, n_computes>>
               ELSE /\ n_computes < MaxComputes
                    /\ n_computes' = n_computes + 1
                    /\ pc' = "compute"
                    /\ step' = a
                    /\ compute_start' = a
                    /\ compute_end' = e
                    /\ last' = Call("compute_reachable_sets", a, b, "None", "computing", FALSE)
    /\ UNCHANGED <<config, reach, reachable_set_computed, extractor_vars,
                   reach_vars, n_resets>>

\* One turn of compute's loop: the drivable area and the propagated base sets
\* of the step from the reachable set of the step before, then the reachable
\* set of the step; the step joins the computed ones.
Advance ==
    /\ pc = "compute"
    /\ LET reachable_set_previous == Get(dict_time_to_reachable_set, step - 1)
           r == compute_drivable_area_at_time_step(config, heap, step,
                                                   reachable_set_previous, cnt_id)
           heap_new == compute_reachable_set_at_time_step(
                           heap, step, r.propagated, r.drivable_area,
                           cnt_id + Len(r.propagated))
           reachable_set == [i \in 1..(Len(heap_new) - Len(heap)) |-> Len(heap) + i]
       IN /\ dict_time_to_drivable_area' = Put(dict_time_to_drivable_area, step, r.drivable_area)
          /\ dict_time_to_base_set_propagated' =
                 Put(dict_time_to_base_set_propagated, step, r.propagated)
          /\ dict_time_to_reachable_set' =
                 Put(Touch(dict_time_to_reachable_set, step - 1), step, reachable_set)
          /\ heap' = heap_new
          /\ cnt_id' = cnt_id + Len(r.propagated) + Len(reachable_set)
    /\ list_steps_computed' = Append(list_steps_computed, step)
    /\ step' = step + 1
    /\ pc' = IF step = compute_end THEN "prune" ELSE "compute"
    /\ UNCHANGED <<config, reach, reachable_set_computed, extractor_vars,
                   step_start, step_end, pruned, compute_start, compute_end, last,
                   n_computes, n_resets>>

RECURSIVE DisconnectFromParents(_, _, _)
\* Every parent of the node forgets the node as its child.
DisconnectFromParents(h, node, parents) ==
    IF parents = <<>> THEN h
    ELSE DisconnectFromParents(remove_child_node(h, Head(parents), node), node, Tail(parents))

RECURSIVE DisconnectAll(_, _)
DisconnectAll(h, nodes) ==
    IF nodes = <<>> THEN h
    ELSE DisconnectAll(DisconnectFromParents(h, Head(nodes), h[Head(nodes)].list_nodes_parent),
                       Tail(nodes))

RECURSIVE prune_nodes_not_reaching_final_step(_, _, _, _)
\* _prune_nodes_not_reaching_final_step: backward in time from the step before
\* the final one, a node without a child node is discarded and its parents
\* forget it.  Gives the heap and the reachable-set map after steps t..first.
prune_nodes_not_reaching_final_step(h, dict, t, first) ==
    IF t < first THEN [heap |-> h, dict |-> dict]
    ELSE LET nodes == Get(dict, t)
             dead == SelectSeq(nodes, LAMBDA n : h[n].list_nodes_child = <<>>)
             kept == SelectSeq(nodes, LAMBDA n : h[n].list_nodes_child # <<>>)
         IN prune_nodes_not_reaching_final_step(
                DisconnectAll(h, dead),
                IF t \in DOMAIN dict THEN [dict EXCEPT ![t] = kept] ELSE dict,
                t - 1, first)

\* The end of compute: the pruning pass when the configuration asks for it.
Prune ==
    /\ pc = "prune"
    /\ IF config.prune_nodes_not_reaching_final_step
       THEN LET r == prune_nodes_not_reaching_final_step(
                         heap, dict_time_to_reachable_set, compute_end - 1, step_start)
            IN /\ heap' = r.heap
               /\ dict_time_to_reachable_set' = r.dict
               /\ pruned' = TRUE
       ELSE UNCHANGED <<heap, dict_time_to_reachable_set, pruned>>
    /\ pc' = "return"
    /\ UNCHANGED <<config, reach, reachable_set_computed, extractor_vars,
                   step_start, step_end, dict_time_to_base_set_propagated,
                   dict_time_to_drivable_area, list_steps_computed, cnt_id, step,
                   compute_start, compute_end, last, n_computes, n_resets>>

\* A return from compute that leaves the interface's flag as it was.
ReturnWithoutFlag ==
    /\ pc = "return"
    /\ pc' = "idle"
    /\ last' = Call("compute_reachable_sets", compute_start, compute_end, "None",
                    "computed", FALSE)
    /\ UNCHANGED <<config, reach, reachable_set_computed, extractor_vars,
                   reach_vars, step, compute_start, compute_end, n_computes, n_resets>>

\* compute has returned: the interface records that the sets are computed.
Return ==
    /\ pc = "return"
    /\ reachable_set_computed' = TRUE
    /\ pc' = "idle"
    /\ last' = Call("compute_reachable_sets", compute_start, compute_end, "None",
                    "computed", FALSE)
    /\ UNCHANGED <<config, reach, extractor_vars, reach_vars, step,
                   compute_start, compute_end, n_computes, n_resets>>

\* The configurations reset() is called with: the current one, or the current
\* one with a mode that does not exist.
ResetArgs == {config, [config EXCEPT !.mode_computation = 5]}

Next ==
    \/ \E cfg \in ResetArgs : Reset(cfg)
    \/ \E s \in QuerySteps : DrivableAreaAtStep(s)
    \/ \E s \in QuerySteps : ReachableSetAtStep(s)
    \/ \E a \in StartArgs, b \in EndArgs : ComputeReachableSets(a, b)
    \/ ExtractDrivingCorridors
    \/ Advance
    \/ Prune
    \/ Return

Spec == Init /\ [][Next]_vars

\* ------------------------------------------------------------ properties
\* The caller is back from compute_reachable_sets, no other call made since.
BackFromCompute == pc = "idle" /\ last.op = "compute_reachable_sets"

\* The step_end compute works with for the argument b.
EffectiveEnd(b) == IF b # 0 THEN b ELSE step_end

\* C1, as stated: after compute(step_start, step_end) with
\* 0 <= step_start < step_end has returned, a query for any step of
\* [step_start, step_end] gives the stored set, never the uncomputed-step answer.
C1_AsStated ==
    (BackFromCompute /\ 0 <= last.a /\ last.a < last.b)
        => \A t \in last.a..last.b : InterfacePath(t) = "stored"

\* C1, as the code has it: after compute_reachable_sets(step_start, step_end)
\* on an interface that has a reachable set, with 0 < step_start < step_end
\* (step_end 0 standing for the configured step_end), has returned, a query for
\* any step of [step_start, step_end] gives the stored set.
C1_ComputedStepsAreStored ==
    (BackFromCompute /\ reach /\ 0 < last.a /\ last.a < EffectiveEnd(last.b))
        => \A t \in last.a..EffectiveEnd(last.b) : InterfacePath(t) = "stored"

\* A compute over steps 1..MaxHorizon has returned and its steps are stored.
C1_Witness ==
    /\ BackFromCompute /\ reach /\ last.a = 1 /\ last.b = MaxHorizon
    /\ \A t \in 1..MaxHorizon : InterfacePath(t) = "stored"
    /\ Len(Get(dict_time_to_reachable_set, MaxHorizon)) > 0

\* This step is a call of compute_reachable_sets.
ComputeCall == pc = "idle" /\ last'.op = "compute_reachable_sets"

\* C2, as stated: a compute request with step_start >= step_end or
\* step_start < 0 is rejected with an error the caller can tell from a
\* completed compute (it is raised), and nothing is computed.
C2_AsStated ==
    (BackFromCompute /\ (last.a >= last.b \/ last.a < 0))
        => (last.raised /\ last.path # "computed")

\* C2, as the code has it: a compute request on an interface that has a
\* reachable set whose horizon is not 0 < step_start < step_end (step_end 0
\* standing for the configured step_end) returns at once, with the None and
\* without the exception of a completed compute, and computes nothing: the
\* maps, the nodes, the computed steps and the interface's flag stay as they were.
C2_RefusedComputesNothing ==
    [][(ComputeCall /\ reach
          /\ (last'.a <= 0 \/ last'.a >= EffectiveEnd(last'.b)))
         => /\ pc' = "idle"
            /\ last'.ret = "None" /\ ~last'.raised
            /\ UNCHANGED <<reach_vars, reachable_set_computed>>]_vars

\* A request with step_start >= step_end was refused after a completed compute,
\* whose sets are still there.
C2_Witness ==
    /\ BackFromCompute /\ reach /\ reachable_set_computed
    /\ last.b # 0 /\ last.a >= last.b /\ last.path = "invalid_steps"
    /\ Len(Get(dict_time_to_reachable_set, MaxHorizon)) > 0

\* The caller is back from a query.
BackFromQuery ==
    pc = "idle" /\ last.op \in {"drivable_area_at_step", "reachable_set_at_step"}

\* The step has an entry from the construction or from compute.
StepIsComputed(t) ==
    /\ reach
    /\ reachable_set_computed \/ t = 0
    /\ t \in Range(list_steps_computed)

\* C3: in every state of the interface a query never raises, and a query for
\* a step that has not been computed returns the empty set.
C3_UncomputedQueryIsEmpty ==
    BackFromQuery
        => /\ ~last.raised
           /\ ~StepIsComputed(last.a) => last.ret = <<>>

\* This step is a query.
QueryCall ==
    pc = "idle" /\ last'.op \in {"drivable_area_at_step", "reachable_set_at_step"}

\* C4: a query changes neither the steps that have an entry in the two maps,
\* nor a stored rectangle or node, nor the list of computed steps.
C4_QueriesAreReadOnly ==
    [][QueryCall =>
          /\ DOMAIN dict_time_to_drivable_area' = DOMAIN dict_time_to_drivable_area
          /\ DOMAIN dict_time_to_reachable_set' = DOMAIN dict_time_to_reachable_set
          /\ UNCHANGED <<dict_time_to_drivable_area, dict_time_to_reachable_set, heap,
                         list_steps_computed>>]_vars

\* ------------------------------------------------- the published sets
\* The interface is idle and has a reachable set.
Published == pc = "idle" /\ reach

\* The computed steps after the initial one.
StepsAfterStart == {t \in Range(list_steps_computed) : t > step_start}

\* The places in the heap of the nodes of reach_set[t].
NodesAt(t) == Range(Get(dict_time_to_reachable_set, t))

\* The rectangles of drivable_area[t].
RectanglesAt(t) == Range(Get(dict_time_to_drivable_area, t))

\* C5: every rectangle of the published drivable area of a computed step
\* t > step_start is collision-free at t.
C5_DrivableAreaIsCollisionFree ==
    Published =>
        \A t \in StepsAfterStart : \A R \in RectanglesAt(t) :
            ~collides_at_time_step(config, t, R)

\* The lattice points of a closed rectangle.
Points(r) == {<<x, y>> : x \in r[1]..r[3], y \in r[2]..r[4]}

\* Rectangle r lies inside rectangle o.
Inside(r, o) == o[1] <= r[1] /\ r[3] <= o[3] /\ o[2] <= r[2] /\ r[4] <= o[4]

\* C6, as stated: at every computed step the position rectangles of the nodes
\* of reach_set[t] cover exactly what the rectangles of drivable_area[t] cover.
C6_AsStated ==
    Published =>
        \A t \in Range(list_steps_computed) :
            UNION {Points(position_rectangle(heap[n])) : n \in NodesAt(t)}
                = UNION {Points(R) : R \in RectanglesAt(t)}

\* C6, as the code has it: at every computed step, in every published state
\* (pruned or not), the position rectangle of each node of reach_set[t] lies
\* inside one rectangle of drivable_area[t]; the union of the nodes' rectangles
\* is within the union of the drivable area, not equal to it.
C6_NodesLieInDrivableArea ==
    Published =>
        \A t \in Range(list_steps_computed) : \A n \in NodesAt(t) :
            \E R \in RectanglesAt(t) : Inside(position_rectangle(heap[n]), R)

\* After a compute with pruning, a step after the initial one has a node, and
\* the node's rectangle is smaller than the rectangle of the drivable area it
\* lies in.
C6_Witness ==
    /\ Published /\ reachable_set_computed /\ pruned
    /\ \E t \in StepsAfterStart : \E n \in NodesAt(t) : \E R \in RectanglesAt(t) :
           /\ Inside(position_rectangle(heap[n]), R)
           /\ position_rectangle(heap[n]) # R

\* The position rectangle of the one-step propagated image of the node at
\* place p of the heap; <<>> when the propagation is empty.
PropagatedRectangle(p) ==
    LET lon == propagate_polygon(heap[p].polygon_lon, polygon_zero_state_lon(config),
                                 config.dt, Ego.v_lon_min, Ego.v_lon_max)
        lat == propagate_polygon(heap[p].polygon_lat, polygon_zero_state_lat(config),
                                 config.dt, Ego.v_lat_min, Ego.v_lat_max)
    IN IF lon = {} \/ lat = {} THEN <<>>
       ELSE <<bounds(lon)[1], bounds(lat)[1], bounds(lon)[3], bounds(lat)[3]>>

\* Every parent of the node at place n, a node of step t, is a node of
\* reach_set[t-1], and its propagated image overlaps the node's rectangle.
ParentsAreInPreviousStep(n, t) ==
    \A i \in DOMAIN heap[n].list_nodes_parent :
        LET parent == heap[n].list_nodes_parent[i]
        IN /\ NodeIn(heap, parent, Get(dict_time_to_reachable_set, t - 1))
           /\ PropagatedRectangle(parent) # <<>>
           /\ Intersects(PropagatedRectangle(parent), position_rectangle(heap[n]))

\* C7, as stated: at every computed step t > step_start, every parent of a
\* node of reach_set[t] is a node of reach_set[t-1], and the parent's propagated
\* image overlaps the node's position rectangle.
C7_AsStated ==
    Published =>
        \A t \in StepsAfterStart : \A n \in NodesAt(t) : ParentsAreInPreviousStep(n, t)

\* C7, as the engine has it: the same, at every step t > step_start of the
\* horizon of the compute that returned last; a step computed by an earlier
\* compute and left out of the last one keeps the parents it had.
C7_ParentsAreInPreviousStepOfLastCompute ==
    (Published /\ reachable_set_computed) =>
        \A t \in {u \in compute_start..compute_end : u > step_start} :
            \A n \in NodesAt(t) : ParentsAreInPreviousStep(n, t)

\* After a compute, a node of the last step has a parent among the two or more
\* nodes of the step before.
C7_Witness ==
    /\ Published /\ reachable_set_computed
    /\ \E n \in NodesAt(compute_end) :
           /\ compute_end > step_start
           /\ Cardinality(NodesAt(compute_end - 1)) >= 2
           /\ heap[n].list_nodes_parent # <<>>
           /\ ParentsAreInPreviousStep(n, compute_end)

\* The velocities of the polygon lie in [v_min, v_max].
VelocityWithin(polygon, v_min, v_max) == \A s \in polygon : v_min <= s[1] /\ s[1] <= v_max

\* The node at place n keeps to the velocity bounds of the ego vehicle.
NodeWithinVelocityBounds(n) ==
    /\ VelocityWithin(heap[n].polygon_lon, Ego.v_lon_min, Ego.v_lon_max)
    /\ VelocityWithin(heap[n].polygon_lat, Ego.v_lat_min, Ego.v_lat_max)

\* C8, as stated: at every step, the initial one included, the velocities of
\* both polygons of every node of reach_set[t] lie within the ego's bounds.
C8_AsStated ==
    Published =>
        \A t \in DOMAIN dict_time_to_reachable_set : \A n \in NodesAt(t) :
            NodeWithinVelocityBounds(n)

\* C8, as the code has it: at every computed step after the initial one the
\* velocities of both polygons of every node of reach_set[t] lie within the
\* ego's bounds; the initial node has the configured velocity, whatever it is.
C8_VelocityWithinBoundsAfterStart ==
    Published =>
        \A t \in StepsAfterStart : \A n \in NodesAt(t) : NodeWithinVelocityBounds(n)

\* A node of the last step of a compute whose longitudinal polygon reaches
\* both velocity bounds.
C8_Witness ==
    /\ Published /\ reachable_set_computed
    /\ \E n \in NodesAt(MaxHorizon) :
           /\ MaxHorizon > step_start
           /\ bounds(heap[n].polygon_lon)[2] = Ego.v_lon_min
           /\ bounds(heap[n].polygon_lon)[4] = Ego.v_lon_max

\* The node at place n, a node of step t, is a parent of a node of reach_set[t+1].
HasRetainedChild(n, t) ==
    \E c \in NodesAt(t + 1) : NodeIn(heap, n, heap[c].list_nodes_parent)

RECURSIVE ReachesFinalStep(_, _)
\* The node at place n, a node of step t, is at the final step of the compute
\* or has a descendant there, through the nodes of the reachable sets.
ReachesFinalStep(n, t) ==
    \/ t >= compute_end
    \/ \E c \in NodesAt(t + 1) :
           NodeIn(heap, n, heap[c].list_nodes_parent) /\ ReachesFinalStep(c, t + 1)

\* C9: the pruning pass keeps a node of step t in reach_set[t] if and only if
\* t is the final step or the node has a retained child at step t+1; it keeps
\* exactly the nodes that are at the final step or had a descendant there.
C9_PruningKeepsNodesReachingFinalStep ==
    [][(pc = "prune" /\ config.prune_nodes_not_reaching_final_step)
         => \A t \in step_start..compute_end : \A n \in NodesAt(t) :
                /\ (n \in NodesAt(t)') <=> (t = compute_end \/ HasRetainedChild(n, t)')
                /\ (n \in NodesAt(t)') <=> ReachesFinalStep(n, t)]_vars

\* After the first compute, with pruning, a node of a step between the initial
\* and the final one is gone from its reachable set, and another one is kept.
C9_Witness ==
    /\ Published /\ reachable_set_computed /\ pruned /\ n_computes = 1 /\ n_resets = 0
    /\ \E n \in DOMAIN heap :
           /\ heap[n].time_step > step_start /\ heap[n].time_step < compute_end
           /\ n \notin NodesAt(heap[n].time_step)
           /\ NodesAt(heap[n].time_step) # {}

\* s is the beginning of the sequence t.
IsPrefix(s, t) == Len(s) <= Len(t) /\ SubSeq(t, 1, Len(s)) = s

\* C10: with pruning disabled, no step of compute takes a node from the
\* reachable set of a step that is already done, or changes the drivable area
\* of that step, or the polygons, the step or the parents of one of its nodes;
\* it only adds children, and only to the nodes of the step before the one it
\* works on.
C10_FinalisedStepsAreKept ==
    [][(pc # "idle" /\ ~config.prune_nodes_not_reaching_final_step)
         => \A t \in {u \in DOMAIN dict_time_to_reachable_set : u < step} :
                /\ Get(dict_time_to_reachable_set, t)' = Get(dict_time_to_reachable_set, t)
                /\ Get(dict_time_to_drivable_area, t)' = Get(dict_time_to_drivable_area, t)
                /\ \A n \in NodesAt(t) :
                       /\ heap'[n] = [heap[n] EXCEPT !.list_nodes_child =
                                                         heap'[n].list_nodes_child]
                       /\ IsPrefix(heap[n].list_nodes_child, heap'[n].list_nodes_child)
                       /\ heap'[n].list_nodes_child # heap[n].list_nodes_child
                              => (pc = "compute" /\ t = step - 1)]_vars

\* Without pruning, compute is past its last step and a node of an earlier
\* step that has no child is still in its reachable set, next to one that has
\* two.
C10_Witness ==
    /\ pc = "return" /\ ~config.prune_nodes_not_reaching_final_step
    /\ \E t \in (step_start + 1)..(compute_end - 1) :
           /\ \E n \in NodesAt(t) : heap[n].list_nodes_child = <<>>
           /\ \E n \in NodesAt(t - 1) : Len(heap[n].list_nodes_child) >= 2

\* ---------------------------------------------------------------- C11
RECURSIVE RunSteps(_, _, _, _)
\* compute's loop on the record st of a reachable set (heap, maps, counter),
\* for the steps t..e.
RunSteps(cfg, st, t, e) ==
    IF t > e THEN st
    ELSE LET r == compute_drivable_area_at_time_step(cfg, st.heap, t,
                                                     Get(st.reachable_set, t - 1), st.cnt_id)
             heap_new == compute_reachable_set_at_time_step(
                             st.heap, t, r.propagated, r.drivable_area,
                             st.cnt_id + Len(r.propagated))
             reachable_set == [i \in 1..(Len(heap_new) - Len(st.heap)) |-> Len(st.heap) + i]
         IN RunSteps(cfg,
                     [heap |-> heap_new,
                      drivable_area |-> Put(st.drivable_area, t, r.drivable_area),
                      reachable_set |-> Put(Touch(st.reachable_set, t - 1), t, reachable_set),
                      cnt_id |-> st.cnt_id + Len(r.propagated) + Len(reachable_set)],
                     t + 1, e)

\* What a new interface for cfg, in a new process, holds after
\* compute_reachable_sets(a, e): construction, the loop, the pruning pass.
ReferenceRun(cfg, a, e) ==
    LET st0 == [heap |-> <<initial_reachable_set(cfg, 0)>>,
                drivable_area |-> (cfg.step_start :> initial_drivable_area(cfg)),
                reachable_set |-> (cfg.step_start :> <<1>>),
                cnt_id |-> 1]
        st == RunSteps(cfg, st0, a, e)
    IN IF cfg.prune_nodes_not_reaching_final_step
       THEN LET r == prune_nodes_not_reaching_final_step(st.heap, st.reachable_set, e - 1,
                                                         cfg.step_start)
            IN [st EXCEPT !.heap = r.heap, !.reachable_set = r.dict]
       ELSE st

\* The place of the node n in the list of nodes, 0 when it is not there.
PlaceIn(list, n) ==
    IF \E i \in DOMAIN list : list[i] = n THEN Min({i \in DOMAIN list : list[i] = n}) ELSE 0

\* The steps a reachable set can hold an entry for.
Steps == 0..(MaxHorizon + 2)

\* What a reachable set publishes, ids and addresses left out: per step the
\* drivable area and, node by node, the polygons, the step and the parents and
\* children as their places in the reachable sets of the adjacent steps.  A
\* step without an entry publishes what an empty entry does.
Structure(h, drivable_area, reachable_set) ==
    [t \in Steps |->
        [drivable_area |-> Get(drivable_area, t),
         reachable_set |->
            [i \in DOMAIN Get(reachable_set, t) |->
                LET node == h[reachable_set[t][i]]
                IN [polygon_lon |-> node.polygon_lon,
                    polygon_lat |-> node.polygon_lat,
                    time_step |-> node.time_step,
                    parents |-> [j \in DOMAIN node.list_nodes_parent |->
                                    PlaceIn(Get(reachable_set, t - 1), node.list_nodes_parent[j])],
                    children |-> [j \in DOMAIN node.list_nodes_child |->
                                     PlaceIn(Get(reachable_set, t + 1), node.list_nodes_child[j])]]]]]

\* The interface publishes what a new interface for the same configuration
\* publishes after the same compute.
SameAsReferenceRun ==
    Structure(heap, dict_time_to_drivable_area, dict_time_to_reachable_set)
        = LET ref == ReferenceRun(config, compute_start, compute_end)
          IN Structure(ref.heap, ref.drivable_area, ref.reachable_set)

\* A compute has completed and the caller has made no call since.
BackFromCompleted == BackFromCompute /\ last.path = "computed"

\* The completed compute is the only one since construction or the last reset.
FirstComputeSinceReset ==
    list_steps_computed =
        <<0>> \o [i \in 1..(compute_end - compute_start + 1) |-> compute_start + i - 1]

MaxFan == 12

\* A node at rest with the position rectangle r = <<x_min, y_min, x_max, y_max>>.
NodeOfRectangle(r, t, id) ==
    ReachNode(from_rectangle_vertices(r[1], 0, r[3], 0),
              from_rectangle_vertices(r[2], 0, r[4], 0), t, id)

\* A reach graph: the nodes (rectangle r at step t), each linked to the nodes
\* it was propagated from as the engine links them (an edge is <<child,
\* parent>>, and no edge is given twice), and the map step -> nodes of the
\* step, in the order of creation.
GraphOf(nodes, edges, listed) ==
    LET up(i) == SelectSeq(edges, LAMBDA e : e[1] = i)
        down(i) == SelectSeq(edges, LAMBDA e : e[2] = i)
    IN [heap |-> [i \in DOMAIN nodes |->
                     [NodeOfRectangle(nodes[i].r, nodes[i].t, i) EXCEPT
                        !.list_nodes_parent = [j \in DOMAIN up(i) |-> up(i)[j][2]],
                        !.list_nodes_child = [j \in DOMAIN down(i) |-> down(i)[j][1]]]],
        reach_set |-> [t \in {nodes[i].t : i \in listed} |->
                          ListOf({i \in listed : nodes[i].t = t})]]

\* A fan over the steps s0..s0+2: one node at s0, k separate nodes of width w
\* at s0+1, each a child of the first (the first of them has no parent when
\* orphan), and one node at s0+2, the child of all k.
Fan(k, w, s0, orphan) ==
    LET nodes == <<[r |-> <<0, 0, 20000, 2000>>, t |-> s0]>>
                 \o [i \in 1..k |-> [r |-> <<1000 * i + 19, 0, 1000 * i + 19 + w, 1000>>,
                                     t |-> s0 + 1]]
                 \o <<[r |-> <<0, 0, 20000, 1000>>, t |-> s0 + 2]>>
        first == IF orphan THEN 2 ELSE 1
    IN GraphOf(nodes,
               [i \in 1..(k - first + 1) |-> <<i + first, 1>>]
                   \o [i \in 1..k |-> <<k + 2, i + 1>>],
               DOMAIN nodes)

\* Two separate nodes at the last step, the larger one the child of a small
\* node, the smaller one the child of a node of width a.
TwoSeeds(a, s0) ==
    GraphOf(<<[r |-> <<0, 0, 20000, 2000>>, t |-> s0],
              [r |-> <<0, 0, 500, 1000>>, t |-> s0 + 1],
              [r |-> <<5000, 0, 5000 + a, 1000>>, t |-> s0 + 1],
              [r |-> <<0, 0, 2000, 1000>>, t |-> s0 + 2],
              [r |-> <<5000, 0, 6000, 1000>>, t |-> s0 + 2]>>,
            <<<<2, 1>>, <<3, 1>>, <<4, 2>>, <<5, 3>>>>,
            1..5)

\* Three nodes at the middle step, parents of the last node: two of them a
\* gap apart and children of the first node, the third far from both and
\* without a parent.
Strip(gap, s0) ==
    GraphOf(<<[r |-> <<0, 0, 20000, 2000>>, t |-> s0],
              [r |-> <<0, 0, 1000, 1000>>, t |-> s0 + 1],
              [r |-> <<1000 + gap, 0, 2000, 1000>>, t |-> s0 + 1],
              [r |-> <<5000, 0, 6000, 1000>>, t |-> s0 + 1],
              [r |-> <<0, 0, 20000, 1000>>, t |-> s0 + 2]>>,
            <<<<2, 1>>, <<3, 1>>, <<5, 2>>, <<5, 3>>, <<5, 4>>>>,
            1..5)

\* The graph an interface holds after compute(1, 3) and then compute(1, 2):
\* the node of step 3 is the first computation's and so are its ancestors
\* (nodes 2 and 3), while steps 1 and 2 list the second computation's nodes.
Recomputed(w) ==
    GraphOf(<<[r |-> <<0, 0, 20000, 2000>>, t |-> 0],
              [r |-> <<1000, 0, 1000 + w, 1000>>, t |-> 1],
              [r |-> <<1000, 0, 1000 + w, 1000>>, t |-> 2],
              [r |-> <<1000, 0, 1000 + w, 1000>>, t |-> 3],
              [r |-> <<1000, 0, 1000 + w, 1000>>, t |-> 1],
              [r |-> <<1000, 0, 1000 + w, 1000>>, t |-> 2]>>,
            <<<<2, 1>>, <<3, 2>>, <<4, 3>>, <<5, 1>>, <<6, 5>>>>,
            {1, 4, 5, 6})

\* Widths of the nodes, first steps, gaps between two nodes, and the graphs
\* the extractor is given.
Widths == {10, 484, 3000}

FirstSteps == {0, 5}

Gaps == {0, 5, 15}

Graphs ==
    {Fan(k, w, s0, orphan) : k \in 1..MaxFan, w \in {10, 484}, s0 \in FirstSteps,
                             orphan \in BOOLEAN}
        \cup {TwoSeeds(a, s0) : a \in Widths, s0 \in FirstSteps}
        \cup {Strip(gap, s0) : gap \in Gaps, s0 \in FirstSteps}
        \cup {Recomputed(w) : w \in {484, 3000}}

\* Terminal sets (None or a rectangle) and longitudinal positions a caller gives.
TerminalSets == {<<>>, <<<<0, 0, 1000, 1000>>>>, <<<<5500, 0, 5600, 500>>>>}

Positions == {1006, 1300, 1514, 5200}

InitCorridor ==
    /\ config = CHOOSE cfg \in Configurations : TRUE
    /\ reach = TRUE
    /\ reachable_set_computed = TRUE
    /\ driving_corridor_extractor = TRUE
    /\ \E g \in Graphs :
          /\ heap = g.heap
          /\ dict_time_to_reachable_set = g.reach_set
          /\ time_steps = ListOf(DOMAIN g.reach_set)
          /\ cnt_id = Len(g.heap) + 1
    /\ step_start = time_steps[1]
    /\ step_end = time_steps[Len(time_steps)]
    /\ dict_time_to_base_set_propagated = <<>>
    /\ dict_time_to_drivable_area = <<>>
    /\ list_steps_computed = <<0>>
    /\ pruned = FALSE
    /\ pc = "idle"
    /\ step = 0
    /\ compute_start = 0
    /\ compute_end = 0
    /\ last = Call("init", <<>>, <<>>, <<>>, "", FALSE)
    /\ n_computes = 0
    /\ n_resets = 0

\* The extractor's call leaves the graph and the interface as they are.
CorridorCall(op, a, b, terminal_set) ==
    /\ last' = CallOf(op, a, b, extract_driving_corridors(
                                    heap, dict_time_to_reachable_set, time_steps,
                                    terminal_set, a, b))
    /\ UNCHANGED <<config, reach, reachable_set_computed, extractor_vars, reach_vars,
                   loop_vars, n_computes, n_resets>>

\* extract_lon_driving_corridor(terminal_set).
ExtractLonDrivingCorridor(terminal_set) ==
    CorridorCall("extract_lon_driving_corridor", <<>>, <<>>, terminal_set)

\* The corridor a caller gives the lateral extraction: None, or the first
\* (largest) longitudinal corridor of the graph if there is one.
FirstOf(r) == IF r.ret = <<>> THEN {<<>>} ELSE {<<>>, <<r.ret[1]>>}

LonCorridors ==
    FirstOf(extract_driving_corridors(heap, dict_time_to_reachable_set, time_steps,
                                      <<>>, <<>>, <<>>))

\* extract_lat_driving_corridor(longitudinal_positions, longitudinal_driving_corridor),
\* each argument None or given.
ExtractLatDrivingCorridor(longitudinal_positions, longitudinal_driving_corridor) ==
    CorridorCall("extract_lat_driving_corridor", longitudinal_positions,
                 longitudinal_driving_corridor, <<>>)

\* The position lists a caller gives: None, a list one position short, or one
\* position per step, 1300 at the first and the last step.
PositionLists ==
    {<<>>, <<Tail(time_steps)>>}
        \cup {<< [i \in DOMAIN time_steps |->
                    IF 1 < i /\ i < Len(time_steps) THEN q ELSE 1300] >> : q \in Positions}

NextCorridor ==
    \/ \E terminal_set \in TerminalSets : ExtractLonDrivingCorridor(terminal_set)
    \/ \E p \in PositionLists, c \in LonCorridors : ExtractLatDrivingCorridor(p, c)

SpecCorridor == InitCorridor /\ [][NextCorridor]_vars

\* ---------------------------------------------------------------- C12
\* The caller is back from a call of the extractor.
BackFromExtractor ==
    last.op \in {"extract_lon_driving_corridor", "extract_lat_driving_corridor"}

\* The call gave exactly one of (longitudinal positions, longitudinal corridor).
ExactlyOneLateralArgument == BackFromExtractor /\ ((last.a = <<>>) # (last.b = <<>>))

\* The call raised ValueError and handed back no corridor.
RefusedWithValueError == last.raised /\ last.path = "ValueError" /\ last.ret = <<>>

\* The reach graph is what it was before the call.
GraphUnchanged ==
    heap' = heap /\ dict_time_to_reachable_set' = dict_time_to_reachable_set

\* C12: extraction called with exactly one of (longitudinal positions,
\* longitudinal driving corridor) raises the error for bad corridor arguments
\* (ValueError) to the caller, produces no corridor and leaves the reach graph
\* unchanged; with neither it runs the longitudinal algorithm, with both the
\* lateral one.
C12_ExactlyOneLateralArgumentIsRefused ==
    /\ [](BackFromExtractor =>
             /\ ExactlyOneLateralArgument => RefusedWithValueError
             /\ (last.a = <<>> /\ last.b = <<>>) => last.path = "longitudinal"
             /\ (last.a # <<>> /\ last.b # <<>>) => last.path = "lateral")
    /\ [][ExactlyOneLateralArgument' => GraphUnchanged]_vars

\* Positions were given without a corridor, on a graph that has corridors, and
\* the call was refused.
C12_Witness ==
    /\ last.op = "extract_lat_driving_corridor"
    /\ last.a # <<>>
    /\ last.b = <<>>
    /\ RefusedWithValueError
    /\ Cardinality(LonCorridors) = 2

\* ---------------------------------------------------------------- C13
\* The driving corridors the last call of the extractor returned.
Corridors == IF BackFromExtractor /\ ~last.raised THEN Range(last.ret) ELSE {}

\* The first and the last step of the extractor.
time_start == time_steps[1]

time_end == time_steps[Len(time_steps)]

\* The nodes of the list are connected: from any of them the others are
\* reached through touching or overlapping position rectangles.
Connected(list) ==
    list # <<>> /\ Grow(heap, Range(list), {list[1]}) = Range(list)

\* The list is a whole connected component of the nodes S.
ComponentOf(list, S) ==
    Range(list) \subseteq S /\ Grow(heap, S, {list[1]}) = Range(list)

\* The nodes that are a parent of a node of the list.
ParentsOfEntry(list) == {n \in DOMAIN heap : \E m \in Range(list) :
                                                n \in Range(heap[m].list_nodes_parent)}

\* Every parent of every node of a listed step is listed at the step before.
ParentsAreListed ==
    \A t \in DOMAIN dict_time_to_reachable_set : \A n \in Range(dict_time_to_reachable_set[t]) :
        Range(heap[n].list_nodes_parent) \subseteq Range(Get(dict_time_to_reachable_set, t - 1))

CorridorsOfSeedReturned(seed) ==
    Cardinality({k \in DOMAIN last.ret : last.ret[k][time_end] = seed})

\* The seed components of the corridors returned.
SeedsReturned == {c[time_end] : c \in Corridors}

\* C14 as stated: for each seed component at step_end the extraction emits at
\* most 10 driving corridors.
C14_AsStated == \A seed \in SeedsReturned : CorridorsOfSeedReturned(seed) <= 10

\* C14: for each seed component at step_end the extraction emits at most 11
\* driving corridors, whatever the branching of the reach graph: the search
\* ends once more than 10 are found.
C14_AtMostElevenCorridorsPerSeed ==
    \A seed \in SeedsReturned : CorridorsOfSeedReturned(seed) <= 11

\* The seed has more than 11 separate parents, each with a way back to the
\* first step, and 11 corridors were returned for it.
C14_Witness ==
    \E seed \in SeedsReturned :
        /\ CorridorsOfSeedReturned(seed) = 11
        /\ Cardinality({n \in ParentsOfEntry(seed) : heap[n].list_nodes_parent # <<>>}) > 11

\* ---------------------------------------------------------------- C15
\* The cumulative area of a corridor: over its steps, the areas of the
\* position rectangles of its nodes, added up.
CumulativeArea(c) ==
    LET AreaOfNode(n) == Area(position_rectangle(heap[n]))
        S[k \in 0..Len(heap)] ==
            IF k = 0 THEN 0
            ELSE S[k - 1] + AreaOfNode(k)
                              * Cardinality({t \in DOMAIN c : k \in Range(c[t])})
    IN S[Len(heap)]

\* C15: the list of driving corridors returned is ordered by non-increasing
\* cumulative area, over the corridors of all seed components together.
C15_CorridorsAreRankedByCumulativeArea ==
    (BackFromExtractor /\ ~last.raised) =>
        \A i, j \in DOMAIN last.ret :
            i < j => CumulativeArea(last.ret[i]) >= CumulativeArea(last.ret[j])

\* Corridors of two seeds were returned, and the corridor of the smaller seed
\* is ranked first, ahead of one of less cumulative area.
C15_Witness ==
    /\ BackFromExtractor
    /\ ~last.raised
    /\ Len(last.ret) >= 2
    /\ last.ret[1][time_end] # last.ret[2][time_end]
    /\ area_of_reachable_set(heap, last.ret[1][time_end])
          < area_of_reachable_set(heap, last.ret[2][time_end])
    /\ CumulativeArea(last.ret[1]) > CumulativeArea(last.ret[2])

\* ---------------------------------------------------------------- C16
\* The caller is back from a lateral extraction that returned.
BackFromLateral == BackFromExtractor /\ last.path = "lateral" /\ ~last.raised

\* The longitudinal position given for the step t.
PositionAt(t) == last.a[1][CHOOSE k \in DOMAIN time_steps : time_steps[k] = t]

\* The nodes of the corridors returned, with their steps.
NodesReturned == {<<t, n>> \in (time_start..time_end) \X DOMAIN heap :
                     \E c \in Corridors : t \in DOMAIN c /\ n \in Range(c[t])}

\* The node belongs to the longitudinal corridor given, at the step t.
InGivenCorridor(t, n) == n \in Range(Get(last.b[1], t))

\* C16 as stated: every node admitted at a step t of a lateral extraction has
\* p_lon_min - 10^-2 <= p_lon(t) <= p_lon_max + 10^-2 (10 ticks) and is a
\* member of the given longitudinal corridor at step t.
C16_AsStated ==
    BackFromLateral =>
        \A tn \in NodesReturned :
            /\ position_rectangle(heap[tn[2]])[1] - 10 <= PositionAt(tn[1])
            /\ PositionAt(tn[1]) <= position_rectangle(heap[tn[2]])[3] + 10
            /\ InGivenCorridor(tn[1], tn[2])

\* C16: every node admitted at a step t of a lateral extraction has
\* p_lon_min - 1.5 * 10^-2 < p_lon(t) < p_lon_max + 1.5 * 10^-2 (15 ticks: the
\* position is rounded, the bounds are floored and ceiled at 10^-2) and is a
\* member of the given longitudinal corridor at step t.
C16_LateralNodesCoverThePositionUpToRounding ==
    BackFromLateral =>
        \A tn \in NodesReturned :
            /\ position_rectangle(heap[tn[2]])[1] - 15 < PositionAt(tn[1])
            /\ PositionAt(tn[1]) < position_rectangle(heap[tn[2]])[3] + 15
            /\ InGivenCorridor(tn[1], tn[2])

\* A lateral corridor was returned with a node whose bounds are more than
\* 10^-2 away from the position given for its step.
C16_Witness ==
    /\ BackFromLateral
    /\ \E tn \in NodesReturned :
          \/ PositionAt(tn[1]) > position_rectangle(heap[tn[2]])[3] + 10
          \/ PositionAt(tn[1]) < position_rectangle(heap[tn[2]])[1] - 10

\* -------------------------------------------- the repartition on its own
\* Largest coordinate of an input rectangle, largest grid size, most
\* rectangles of an input.
MaxCoordinate == 3

MaxGrid == 3

MaxRectangles == 2

Coordinates == -1..MaxCoordinate

GridSizes == 2..MaxGrid

\* Rectangles, those of no width or no height (a point, a segment) included.
Rectangles ==
    {r \in Coordinates \X Coordinates \X Coordinates \X Coordinates :
        r[1] <= r[3] /\ r[2] <= r[4]}

RectangleLists == UNION {[1..n -> Rectangles] : n \in 0..MaxRectangles}

\* The rectangles and the grid size the repartition is to be given.
InitRepartition ==
    /\ config = CHOOSE cfg \in Configurations : TRUE
    /\ reach = FALSE
    /\ reachable_set_computed = FALSE
    /\ driving_corridor_extractor = FALSE
    /\ time_steps = <<>>
    /\ step_start = 0
    /\ step_end = 0
    /\ dict_time_to_base_set_propagated = <<>>
    /\ dict_time_to_drivable_area = <<>>
    /\ dict_time_to_reachable_set = <<>>
    /\ heap = <<>>
    /\ cnt_id = 0
    /\ list_steps_computed = <<>>
    /\ pruned = FALSE
    /\ pc = "idle"
    /\ step = 0
    /\ compute_start = 0
    /\ compute_end = 0
    /\ \E list_rectangles \in RectangleLists, size_grid \in GridSizes :
          last = Call("input", <<>>, size_grid, list_rectangles, "", FALSE)
    /\ n_computes = 0
    /\ n_resets = 0

\* create_repartitioned_rectangles is applied to the input, and once more to
\* what it gave.
Repartition ==
    /\ last.path \in {"", "once"}
    /\ last' = Call("create_repartitioned_rectangles", last.ret, last.b,
                    create_repartitioned_rectangles(last.ret, last.b),
                    IF last.path = "" THEN "once" ELSE "twice", FALSE)
    /\ UNCHANGED <<config, reach, reachable_set_computed, extractor_vars, reach_vars,
                   loop_vars, n_computes, n_resets>>

NextRepartition == Repartition

SpecRepartition == InitRepartition /\ [][NextRepartition]_vars

\* ---------------------------------------------------------------- C17
\* The caller is back from a repartition: last.a went in, last.ret came out,
\* last.b is the grid size.
BackFromRepartition == last.op = "create_repartitioned_rectangles"

\* C17: grid repartition is idempotent: repartition(repartition(R, g), g)
\* equals repartition(R, g) as a set of rectangles.
C17_RepartitionIsIdempotent ==
    (BackFromRepartition /\ last.path = "twice") => Range(last.ret) = Range(last.a)

\* The repartition was applied twice, to rectangles that it reassembled into
\* three or more.
C17_Witness ==
    /\ BackFromRepartition
    /\ last.path = "twice"
    /\ Len(last.ret) >= 3

\* ---------------------------------------------------------------- C18
\* The rectangle snapped outward to the g-grid.
SnappedOutward(r, g) ==
    <<g * FloorDiv(r[1], g), g * FloorDiv(r[2], g), g * CeilDiv(r[3], g), g * CeilDiv(r[4], g)>>

\* The unit squares <<x, y>> ([x, x+1] x [y, y+1]) the rectangles cover.
UnitSquares(rectangles) ==
    {<<x, y>> \in (-MaxGrid - 1..MaxCoordinate + MaxGrid) \X (-MaxGrid - 1..MaxCoordinate + MaxGrid) :
        \E r \in rectangles : r[1] <= x /\ x + 1 <= r[3] /\ r[2] <= y /\ y + 1 <= r[4]}

\* The interiors of r and o share no point.
InteriorDisjoint(r, o) == ~(r[1] < o[3] /\ o[1] < r[3] /\ r[2] < o[4] /\ o[2] < r[4])

\* C18: the rectangles the repartition returns are pairwise interior-disjoint,
\* have all corners on multiples of g, and their union is the union of the
\* input rectangles, each snapped outward to the g-grid.
C18_RepartitionIsADisjointAlignedCover ==
    BackFromRepartition =>
        /\ \A i, j \in DOMAIN last.ret : i # j => InteriorDisjoint(last.ret[i], last.ret[j])
        /\ \A i \in DOMAIN last.ret : \A k \in 1..4 : last.ret[i][k] % last.b = 0
        /\ \A i \in DOMAIN last.ret : last.ret[i][1] < last.ret[i][3]
                                       /\ last.ret[i][2] < last.ret[i][4]
        /\ UnitSquares(Range(last.ret))
              = UnitSquares({SnappedOutward(r, last.b) : r \in Range(last.a)})

\* Two overlapping rectangles off the grid went in, neither inside the other
\* once snapped, and three or more rectangles came out.
C18_Witness ==
    /\ BackFromRepartition
    /\ last.path = "once"
    /\ Len(last.a) = 2
    /\ \E k \in 1..4 : last.a[1][k] % last.b # 0
    /\ Intersects(last.a[1], last.a[2])
    /\ Len(last.ret) >= 3

\* ------------------------------------ PlanningConfiguration on its own
\* Largest dt given, in hundredths of a second.
MaxDt == 100

\* The dt of the configuration file: an integer (dt: 1) or a decimal (dt: 0.1),
\* held as its kind and its value in hundredths.
DtValues ==
    {[kind |-> "float", hundredths |-> h] : h \in (-MaxDt)..MaxDt}
        \cup {[kind |-> "int", hundredths |-> h] : h \in {k \in (-MaxDt)..MaxDt : k % 100 = 0}}

\* len(str(dt).split(".")[1]) for a decimal dt: "0.1" and "1.0" have one digit
\* after the point, "0.25" has two.
DigitsAfterPoint(dt) == IF dt.hundredths % 10 = 0 THEN 1 ELSE 2

\* assert len(str(config_relevant.dt).split(".")[1]) == 1: str of an integer
\* has no point, so [1] raises IndexError; the assert fails with two digits.
dt_check(dt) ==
    IF dt.kind = "int" THEN "IndexError"
    ELSE IF DigitsAfterPoint(dt) = 1 THEN "" ELSE "AssertionError"

\* PlanningConfiguration.__init__: dt is tested, the steps are taken as given.
PlanningConfiguration(dt, start, steps) ==
    IF dt_check(dt) # ""
    THEN [raised |-> dt_check(dt), planning |-> <<>>]
    ELSE [raised |-> "",
          planning |-> <<[dt |-> dt, step_start |-> start, steps_computation |-> steps]>>]

\* The planning section of the configuration file.
InitConfiguration ==
    /\ config = <<>>
    /\ reach = FALSE
    /\ reachable_set_computed = FALSE
    /\ driving_corridor_extractor = FALSE
    /\ time_steps = <<>>
    /\ step_start = 0
    /\ step_end = 0
    /\ dict_time_to_base_set_propagated = <<>>
    /\ dict_time_to_drivable_area = <<>>
    /\ dict_time_to_reachable_set = <<>>
    /\ heap = <<>>
    /\ cnt_id = 0
    /\ list_steps_computed = <<>>
    /\ pruned = FALSE
    /\ pc = "idle"
    /\ step = 0
    /\ compute_start = 0
    /\ compute_end = 0
    /\ \E dt \in DtValues, start \in 0..MaxHorizon, steps \in -1..MaxHorizon :
          last = Call("input", dt, <<start, steps>>, <<>>, "", FALSE)
    /\ n_computes = 0
    /\ n_resets = 0

\* The configuration is constructed from the file.
ConstructConfiguration ==
    /\ last.op = "input"
    /\ LET r == PlanningConfiguration(last.a, last.b[1], last.b[2])
       IN /\ config' = r.planning
          /\ last' = Call("PlanningConfiguration", last.a, last.b, r.planning, r.raised,
                          r.raised # "")
    /\ UNCHANGED <<reach, reachable_set_computed, extractor_vars, reach_vars, loop_vars,
                   n_computes, n_resets>>

NextConfiguration == ConstructConfiguration

SpecConfiguration == InitConfiguration /\ [][NextConfiguration]_vars

\* ---------------------------------------------------------------- C19
\* The construction of the configuration was tried.
BackFromConfiguration == last.op = "PlanningConfiguration"

\* dt is a positive multiple of 0.1.
PositiveMultipleOfTenth == last.a.hundredths > 0 /\ last.a.hundredths % 10 = 0

\* step_start < step_end, step_end being step_start + steps_computation.
ValidHorizon == last.b[1] < last.b[1] + last.b[2]

\* C19: constructing a configuration fails at once when dt is not a positive
\* multiple of 0.1 (zero, negative, more than one decimal digit) or when
\* step_start >= step_end, and succeeds for every dt that is a positive
\* multiple of 0.1 with a valid horizon.
C19_InvalidConfigurationIsRefused ==
    BackFromConfiguration =>
        /\ ~(PositiveMultipleOfTenth /\ ValidHorizon) => last.raised
        /\ (PositiveMultipleOfTenth /\ ValidHorizon) => ~last.raised

\* ---------------------------------------------------------------- C20
\* The caller is back from extract_driving_corridors of the interface.
BackFromExtract == pc = "idle" /\ last.op = "extract_driving_corridors"

\* C20: whenever no compute has succeeded since construction or the last
\* reset, extract_driving_corridors returns an empty list, raises nothing and
\* constructs no corridor extractor.
C20_ExtractBeforeComputeIsEmpty ==
    (BackFromExtract /\ ~reachable_set_computed) =>
        /\ last.ret = <<>>
        /\ ~last.raised
        /\ ~driving_corridor_extractor

\* ------------------------------------------------------ C22: emptiness
\* compute is inside its loop or has just left it: the steps
\* compute_start..(step - 1) are advanced and nothing has been pruned since.
InsideCompute == pc \in {"compute", "prune"}

StepsAdvanced == compute_start..(step - 1)

\* The reachable set of step t - 1 was empty when step t was advanced.
AdvancedFromEmpty(t) == Get(dict_time_to_reachable_set, t - 1) = <<>>

\* C22: emptiness is absorbing and non-fatal.  Inside a compute, every step
\* advanced from an empty reachable set has an empty drivable area and an empty
\* reachable set stored (so every later step of the compute has them, too),
\* and when the loop is left every step of the horizon is stored and counted
\* among the computed ones; the call returns without raising.
C22_EmptinessIsAbsorbing ==
    /\ InsideCompute =>
           \A t \in StepsAdvanced :
               AdvancedFromEmpty(t) =>
                   /\ t \in DOMAIN dict_time_to_drivable_area
                   /\ t \in DOMAIN dict_time_to_reachable_set
                   /\ dict_time_to_drivable_area[t] = <<>>
                   /\ dict_time_to_reachable_set[t] = <<>>
                   /\ \A u \in t..(step - 1) :
                          /\ Get(dict_time_to_drivable_area, u) = <<>>
                          /\ Get(dict_time_to_reachable_set, u) = <<>>
    /\ pc \in {"prune", "return"} =>
           /\ step = compute_end + 1
           /\ \A t \in compute_start..compute_end :
                  /\ t \in Range(list_steps_computed)
                  /\ t \in DOMAIN dict_time_to_drivable_area
                  /\ t \in DOMAIN dict_time_to_reachable_set
    /\ (BackFromCompute /\ last.path = "computed") => ~last.raised

\* A compute has left its loop; a step of it gave an empty reachable set from a
\* reachable set that was not empty, and at least two steps followed it.
C22_Witness ==
    /\ pc = "prune"
    /\ \E t \in StepsAdvanced :
           /\ ~AdvancedFromEmpty(t)
           /\ dict_time_to_reachable_set[t] = <<>>
           /\ t + 2 <= compute_end

\* -------------------------------------------- the propagation on its own
\* Most nodes of the reachable set that is propagated.
MaxNodes == 3

\* The polygons of the nodes: (p_min, v_min, p_max, v_max) of a rectangle in
\* the longitudinal and in the lateral plane.  The velocities 8 and 6 lie
\* outside the bands of Ego, and propagating such a polygon fails.
LonPolygons == {<<0, 2, 0, 2>>, <<0, 0, 4, 4>>, <<0, 8, 4, 8>>}

LatPolygons == {<<10, 0, 10, 0>>, <<10, 6, 12, 6>>}

\* The steps of the reachable set that is propagated.
PreviousSteps == {0, 2}

\* The reachable sets of a step: up to MaxNodes nodes, ids in order.
ReachableSets(t) ==
    UNION {{[i \in 1..n |->
                ReachNode(from_rectangle_vertices(f[i][1][1], f[i][1][2], f[i][1][3], f[i][1][4]),
                          from_rectangle_vertices(f[i][2][1], f[i][2][2], f[i][2][3], f[i][2][4]),
                          t, i - 1)] :
              f \in [1..n -> LonPolygons \X LatPolygons]} : n \in 0..MaxNodes}

\* The reachable set of a step, stored and about to be propagated.
InitPropagation ==
    /\ config = CHOOSE cfg \in Configurations : TRUE
    /\ reach = TRUE
    /\ reachable_set_computed = FALSE
    /\ driving_corridor_extractor = FALSE
    /\ time_steps = <<>>
    /\ step_start = 0
    /\ step_end = MaxHorizon
    /\ dict_time_to_base_set_propagated = <<>>
    /\ dict_time_to_drivable_area = <<>>
    /\ \E t \in PreviousSteps :
          /\ heap \in ReachableSets(t)
          /\ dict_time_to_reachable_set = (t :> [i \in 1..Len(heap) |-> i])
          /\ step = t + 1
    /\ cnt_id = Len(heap)
    /\ list_steps_computed = <<0>>
    /\ pruned = FALSE
    /\ pc = "compute"
    /\ compute_start = step
    /\ compute_end = step
    /\ last = Call("input", <<>>, <<>>, <<>>, "", FALSE)
    /\ n_computes = 0
    /\ n_resets = 0

\* _propagate_reachable_set(reachable_set_previous), as the first thing
\* compute_drivable_area_at_time_step does for the step.
PropagateReachableSet ==
    /\ last.op = "input"
    /\ LET list_nodes == dict_time_to_reachable_set[step - 1]
           list_base_sets_propagated == propagate_reachable_set(config, heap, list_nodes, cnt_id)
       IN /\ last' = Call("_propagate_reachable_set", list_nodes, step,
                          list_base_sets_propagated, "", FALSE)
          /\ cnt_id' = cnt_id + Len(list_base_sets_propagated)
    /\ UNCHANGED <<config, reach, reachable_set_computed, extractor_vars, step_start,
                   step_end, dict_time_to_base_set_propagated, dict_time_to_drivable_area,
                   dict_time_to_reachable_set, list_steps_computed, pruned, heap,
                   loop_vars, n_computes, n_resets>>

SpecPropagation == InitPropagation /\ [][PropagateReachableSet]_vars

\* ---------------------------------------------------------------- C23
\* The caller is back from _propagate_reachable_set: last.a went in, last.ret
\* came out, last.b is the step that is computed.
BackFromPropagation == last.op = "_propagate_reachable_set"

\* Propagating the longitudinal or the lateral polygon of the node fails.
PropagationFails(n) ==
    \/ propagate_polygon(heap[n].polygon_lon, polygon_zero_state_lon(config), config.dt,
                         Ego.v_lon_min, Ego.v_lon_max) = {}
    \/ propagate_polygon(heap[n].polygon_lat, polygon_zero_state_lat(config), config.dt,
                         Ego.v_lat_min, Ego.v_lat_max) = {}

\* The reachable set without the nodes whose propagation fails, and what
\* propagating that gives with the ids the call started from.
WithoutFailing(list_nodes) == SelectSeq(list_nodes, LAMBDA n : ~PropagationFails(n))

PropagatedWithoutFailing ==
    propagate_reachable_set(config, heap, WithoutFailing(last.a),
                            cnt_id - Len(last.ret))

\* C23: a node whose longitudinal or lateral propagation fails gives no
\* propagated node and no error; the other nodes are propagated exactly as
\* they are when the failing nodes are absent; every propagated node has its
\* source among the nodes that were given.
C23_FailedPropagationOmitsTheNode ==
    BackFromPropagation =>
        /\ ~last.raised
        /\ \A n \in Range(last.a) :
               PropagationFails(n) =>
                   \A i \in DOMAIN last.ret : last.ret[i].source_propagation # n
        /\ last.ret = PropagatedWithoutFailing
        /\ \A i \in DOMAIN last.ret : last.ret[i].source_propagation \in Range(last.a)
        /\ Len(last.ret) = Len(WithoutFailing(last.a))

\* Three nodes were given: the first is propagated, the second fails in the
\* lateral plane only, the third is propagated.
C23_Witness ==
    /\ BackFromPropagation
    /\ Len(last.a) = 3
    /\ ~PropagationFails(1)
    /\ PropagationFails(2)
    /\ propagate_polygon(heap[2].polygon_lon, polygon_zero_state_lon(config), config.dt,
                         Ego.v_lon_min, Ego.v_lon_max) # {}
    /\ ~PropagationFails(3)
    /\ Len(last.ret) = 2

\* ---------------------------------------------------------------- C24
\* The node of the reachable set given that the propagated node came from:
\* the one whose propagated polygons are the node's.
PropagatedFrom(p, n) ==
    /\ p.polygon_lon = propagate_polygon(heap[n].polygon_lon, polygon_zero_state_lon(config),
                                         config.dt, Ego.v_lon_min, Ego.v_lon_max)
    /\ p.polygon_lat = propagate_polygon(heap[n].polygon_lat, polygon_zero_state_lat(config),
                                         config.dt, Ego.v_lat_min, Ego.v_lat_max)

\* C24: every propagated node made while step t is computed has step t, and
\* its source_propagation is the one node of the reachable set of step t - 1
\* it was propagated from.
C24_PropagatedNodesCarryStepAndSource ==
    BackFromPropagation =>
        \A i \in DOMAIN last.ret :
            /\ last.ret[i].time_step = last.b
            /\ last.ret[i].source_propagation \in Range(last.a)
            /\ PropagatedFrom(last.ret[i], last.ret[i].source_propagation)

\* ---------------------------------------------------------------- C25
\* The places in the heap of the nodes of the reach graph: the nodes of the
\* reachable sets of all steps.
Retained == UNION {NodesAt(t) : t \in DOMAIN dict_time_to_reachable_set}

\* The list of references holds no node twice.
NoDuplicates(list) ==
    \A i, j \in DOMAIN list : heap[list[i]].id = heap[list[j]].id => i = j

\* The parent and child relations are inverses of each other on the nodes of
\* the graph, and no list of a node of the graph holds a node twice.
MutualInverses ==
    /\ \A n \in Retained : \A p \in Retained :
           (p \in Range(heap[n].list_nodes_parent)) <=> (n \in Range(heap[p].list_nodes_child))
    /\ \A n \in Retained :
           NoDuplicates(heap[n].list_nodes_parent) /\ NoDuplicates(heap[n].list_nodes_child)

\* This step is the pruning pass, and after it no node of the graph refers to
\* a node the pass removed from the graph.
PruningLeavesNoReference ==
    pc = "prune" =>
        \A n \in Retained' :
            (Range(heap'[n].list_nodes_parent) \cup Range(heap'[n].list_nodes_child))
                \cap (Retained \ Retained') = {}

\* C25: in every published state, also after the pruning pass, the parent and
\* child relations of the reach graph are mutual inverses without duplicates:
\* p is a parent of n if and only if n is a child of p, no parent or child list
\* holds a node twice, and no retained node refers to a node pruning removed.
C25_ParentsAndChildrenAreMutualInverses ==
    /\ []((pc \in {"idle", "return"} /\ reach) => MutualInverses)
    /\ [][PruningLeavesNoReference]_vars

\* The pruning pass has removed a node from the graph; a parent of that node
\* is retained with another child and no longer lists the removed node.
C25_Witness ==
    /\ Published
    /\ pruned
    /\ \E d \in DOMAIN heap \ Retained : \E p \in Retained :
           /\ p \in Range(heap[d].list_nodes_parent)
           /\ d \notin Range(heap[p].list_nodes_child)
           /\ heap[p].list_nodes_child # <<>>

\* ------------------------------------------------ reach nodes on their own
\* Most node objects alive at once.
MaxObjects == 5

\* The polygon the nodes are made with: the point (p, v) = (0, 0).
PointPolygon == from_rectangle_vertices(0, 0, 0, 0)

RECURSIVE ReachableObjects(_, _)
\* The node objects a deep copy of the objects S reaches: S and everything
\* their parent lists, child lists and source_propagation refer to.
ReachableObjects(h, S) ==
    LET T == S \cup UNION {Range(h[n].list_nodes_parent) \cup Range(h[n].list_nodes_child)
                               \cup ({h[n].source_propagation} \ {0}) : n \in S}
    IN IF T = S THEN S ELSE ReachableObjects(h, T)

\* copy.deepcopy(list) of a list of nodes: every object the list reaches is
\* copied, attribute by attribute and without a call of __init__, so a copy has
\* the id of its original; the references of the copies are to copies.  Gives
\* the heap with the copies at its end, and the copied list.
deepcopy(h, list) ==
    LET objects == ListOf(ReachableObjects(h, Range(list)))
        CopyOf(n) == Len(h) + CHOOSE k \in DOMAIN objects : objects[k] = n
        Copied(n) ==
            [h[n] EXCEPT
               !.list_nodes_parent = [i \in DOMAIN @ |-> CopyOf(@[i])],
               !.list_nodes_child = [i \in DOMAIN @ |-> CopyOf(@[i])],
               !.source_propagation = IF @ = 0 THEN 0 ELSE CopyOf(@)]
    IN [heap |-> h \o [k \in DOMAIN objects |-> Copied(objects[k])],
        list |-> [i \in DOMAIN list |-> CopyOf(list[i])]]

\* ReachNode.clone: a new node (with the next id) of the same polygons and
\* step; its parent list and its child list are deep copies, one after the
\* other; its source_propagation is the original's.
clone(h, self, id) ==
    LET node_clone == Len(h) + 1
        h1 == Append(h, ReachNode(h[self].polygon_lon, h[self].polygon_lat,
                                  h[self].time_step, id))
        parents == deepcopy(h1, h[self].list_nodes_parent)
        children == deepcopy(parents.heap, h[self].list_nodes_child)
    IN [children.heap EXCEPT
          ![node_clone].list_nodes_parent = parents.list,
          ![node_clone].list_nodes_child = children.list,
          ![node_clone].source_propagation = h[self].source_propagation]

\* An engine without a node.
InitNodes ==
    /\ config = CHOOSE cfg \in Configurations : TRUE
    /\ reach = TRUE
    /\ reachable_set_computed = FALSE
    /\ driving_corridor_extractor = FALSE
    /\ time_steps = <<>>
    /\ step_start = 0
    /\ step_end = 0
    /\ dict_time_to_base_set_propagated = <<>>
    /\ dict_time_to_drivable_area = <<>>
    /\ dict_time_to_reachable_set = <<>>
    /\ heap = <<>>
    /\ cnt_id = 0
    /\ list_steps_computed = <<>>
    /\ pruned = FALSE
    /\ pc = "idle"
    /\ step = 0
    /\ compute_start = 0
    /\ compute_end = 0
    /\ last = Call("init", 0, 0, <<>>, "", FALSE)
    /\ n_computes = 0
    /\ n_resets = 0

\* What the actions on nodes leave alone.
UnchangedByNodes ==
    UNCHANGED <<config, reach, reachable_set_computed, extractor_vars, step_start, step_end,
                dict_time_to_base_set_propagated, dict_time_to_drivable_area,
                dict_time_to_reachable_set, list_steps_computed, pruned, loop_vars,
                n_computes>>

\* ReachNode(polygon_lon, polygon_lat, time_step); the engine makes the nodes
\* of a step after those of the steps before.
CreateNode(t) ==
    /\ Len(heap) < MaxObjects
    /\ \A n \in DOMAIN heap : heap[n].time_step <= t
    /\ heap' = Append(heap, ReachNode(PointPolygon, PointPolygon, t, cnt_id))
    /\ cnt_id' = cnt_id + 1
    /\ last' = Call("ReachNode", 0, 0, <<>>, "", FALSE)
    /\ UNCHANGED n_resets
    /\ UnchangedByNodes

\* node.add_parent_node(node_parent) and node_parent.add_child_node(node), as
\* create_nodes_of_reachable_set links a node with its source.
LinkNodes(node_parent, node) ==
    /\ heap[node].time_step = heap[node_parent].time_step + 1
    /\ ~NodeIn(heap, node_parent, heap[node].list_nodes_parent)
    /\ heap' = add_child_node(add_parent_node(heap, node, node_parent), node_parent, node)
    /\ last' = Call("add_parent_node", 0, 0, <<>>, "", FALSE)
    /\ UNCHANGED <<cnt_id, n_resets>>
    /\ UnchangedByNodes

\* node.clone().
CloneNode(node) ==
    /\ Len(clone(heap, node, cnt_id)) <= MaxObjects
    /\ heap' = clone(heap, node, cnt_id)
    /\ cnt_id' = cnt_id + 1
    /\ last' = Call("clone", 0, 0, <<>>, "", FALSE)
    /\ UNCHANGED n_resets
    /\ UnchangedByNodes

\* ReachNode.reset_class_id_counter(); counted with the resets.
ResetClassIdCounter ==
    /\ n_resets < MaxResets
    /\ n_resets' = n_resets + 1
    /\ cnt_id' = 0
    /\ last' = Call("reset_class_id_counter", 0, 0, <<>>, "", FALSE)
    /\ UNCHANGED heap
    /\ UnchangedByNodes

\* A reset of the engine: the nodes of the engine before are let go; the
\* class counter is not the engine's and lives on.
ResetEngine ==
    /\ n_resets < MaxResets
    /\ heap # <<>>
    /\ n_resets' = n_resets + 1
    /\ heap' = <<>>
    /\ last' = Call("reset", 0, 0, <<>>, "", FALSE)
    /\ UNCHANGED cnt_id
    /\ UnchangedByNodes

SpecNodes ==
    /\ InitNodes
    /\ [][\/ \E t \in 0..1 : CreateNode(t)
          \/ \E p \in DOMAIN heap, n \in DOMAIN heap : LinkNodes(p, n)
          \/ \E n \in DOMAIN heap : CloneNode(n)
          \/ ResetClassIdCounter
          \/ ResetEngine]_vars

\* ---------------------------------------------------------------- C26
\* C26: over any sequence of node creations, clone() calls, engine resets and
\* reset_class_id_counter() calls, the ids of the nodes an engine holds
\* increase strictly in the order the nodes were made (the order of the heap),
\* so no two distinct nodes have the same id.
C26_IdsIncreaseAndAreUnique ==
    \A i, j \in DOMAIN heap : i < j => heap[i].id < heap[j].id

\* --------------------------------------------- the geometry of one node
\* The polygons a node is made with or assigned: rectangles
\* (p_min, v_min, p_max, v_max) of a (position, velocity) plane.
NodePolygons ==
    {from_rectangle_vertices(0, 0, 4, 4), from_rectangle_vertices(1, -2, 3, 2),
     from_rectangle_vertices(2, 0, 2, 0)}

\* The bounds the two intersections are called with: (min, min, max, max) of
\* the longitudinal and the lateral axis.
DomainBounds ==
    {b \in {1, 3} \X {1, 3} \X {1, 3} \X {1, 3} : b[1] <= b[3] /\ b[2] <= b[4]}

\* ReachNode.intersect_in_velocity_domain: both polygons are cut to the
\* velocity bounds; the bounds read at construction stay as they were.
intersect_in_velocity_domain(node, v_lon_min, v_lat_min, v_lon_max, v_lat_max) ==
    [node EXCEPT
       !.polygon_lon = intersect_halfspace(intersect_halfspace(@, 0, 1, v_lon_max),
                                           0, -1, -v_lon_min),
       !.polygon_lat = intersect_halfspace(intersect_halfspace(@, 0, 1, v_lat_max),
                                           0, -1, -v_lat_min)]

\* One node, as ReachNode.__init__ leaves it.
InitGeometry ==
    /\ config = CHOOSE cfg \in Configurations : TRUE
    /\ reach = TRUE
    /\ reachable_set_computed = FALSE
    /\ driving_corridor_extractor = FALSE
    /\ time_steps = <<>>
    /\ step_start = 0
    /\ step_end = 0
    /\ dict_time_to_base_set_propagated = <<>>
    /\ dict_time_to_drivable_area = <<>>
    /\ dict_time_to_reachable_set = <<>>
    /\ \E polygon_lon \in NodePolygons, polygon_lat \in NodePolygons :
          heap = <<ReachNode(polygon_lon, polygon_lat, 0, 0)>>
    /\ cnt_id = 1
    /\ list_steps_computed = <<>>
    /\ pruned = FALSE
    /\ pc = "idle"
    /\ step = 0
    /\ compute_start = 0
    /\ compute_end = 0
    /\ last = Call("ReachNode", 0, 0, <<>>, "", FALSE)
    /\ n_computes = 0
    /\ n_resets = 0

\* What the operations on the node's geometry leave alone.
UnchangedByGeometry ==
    UNCHANGED <<config, reach, reachable_set_computed, extractor_vars, step_start, step_end,
                dict_time_to_base_set_propagated, dict_time_to_drivable_area,
                dict_time_to_reachable_set, list_steps_computed, pruned, cnt_id, loop_vars,
                n_computes, n_resets>>

\* node.intersect_in_position_domain(p_lon_min, p_lat_min, p_lon_max, p_lat_max),
\* on a node neither polygon of which is empty.
IntersectInPositionDomain(b) ==
    /\ heap[1].polygon_lon # {} /\ heap[1].polygon_lat # {}
    /\ heap' = <<intersect_in_position_domain(heap[1], b[1], b[2], b[3], b[4])>>
    /\ last' = Call("intersect_in_position_domain", b, 0, <<>>, "", FALSE)
    /\ UnchangedByGeometry

\* node.intersect_in_velocity_domain(v_lon_min, v_lat_min, v_lon_max, v_lat_max).
IntersectInVelocityDomain(b) ==
    /\ heap[1].polygon_lon # {} /\ heap[1].polygon_lat # {}
    /\ heap' = <<intersect_in_velocity_domain(heap[1], b[1], b[2], b[3], b[4])>>
    /\ last' = Call("intersect_in_velocity_domain", b, 0, <<>>, "", FALSE)
    /\ UnchangedByGeometry

\* node.polygon_lon = polygon: the setter stores the polygon and nothing else.
SetPolygonLon(polygon) ==
    /\ heap' = <<[heap[1] EXCEPT !.polygon_lon = polygon]>>
    /\ last' = Call("polygon_lon", polygon, 0, <<>>, "", FALSE)
    /\ UnchangedByGeometry

\* node.polygon_lat = polygon.
SetPolygonLat(polygon) ==
    /\ heap' = <<[heap[1] EXCEPT !.polygon_lat = polygon]>>
    /\ last' = Call("polygon_lat", polygon, 0, <<>>, "", FALSE)
    /\ UnchangedByGeometry

SpecGeometry ==
    /\ InitGeometry
    /\ [][\/ \E b \in DomainBounds : IntersectInPositionDomain(b)
          \/ \E b \in DomainBounds : IntersectInVelocityDomain(b)
          \/ \E polygon \in NodePolygons : SetPolygonLon(polygon)
          \/ \E polygon \in NodePolygons : SetPolygonLat(polygon)]_vars

\* ---------------------------------------------------------------- C27
\* C27: at every moment the position rectangle of a node is
\* [p_lon_min, p_lat_min] x [p_lon_max, p_lat_max] of the bounds of the polygons
\* the node has now, whatever was applied to it: construction, the two
\* intersections, a polygon assignment.
C27_PositionRectangleFollowsThePolygons ==
    (heap[1].polygon_lon # {} /\ heap[1].polygon_lat # {}) =>
        position_rectangle(heap[1]) =
            <<bounds(heap[1].polygon_lon)[1], bounds(heap[1].polygon_lat)[1],
              bounds(heap[1].polygon_lon)[3], bounds(heap[1].polygon_lat)[3]>>

\* ------------------------------------------- the collision split on its own
\* The rectangles that are split.  The sides are powers of two, so every
\* midpoint of a split is a lattice point.
SplitRectangles ==
    {<<x, y, x + w, y + h>> : x \in {0, 4, 8}, y \in {0, 4, 8}, w \in {4, 8}, h \in {4, 8}}

\* The terminal radii and the steps of the split.
TerminalRadii == {1, 2}

SplitSteps == {1, 3}

\* A rectangle, a step, a terminal radius and the scenario the collision
\* checker is made of.
InitSplit ==
    /\ config \in {cfg \in Configurations :
                      /\ cfg.step_start = 0 /\ cfg.v_lon_initial = 2 /\ cfg.size_grid_2nd = 2
                      /\ ~cfg.prune_nodes_not_reaching_final_step}
    /\ reach = TRUE
    /\ reachable_set_computed = FALSE
    /\ driving_corridor_extractor = FALSE
    /\ time_steps = <<>>
    /\ step_start = 0
    /\ step_end = 0
    /\ dict_time_to_base_set_propagated = <<>>
    /\ dict_time_to_drivable_area = <<>>
    /\ dict_time_to_reachable_set = <<>>
    /\ heap = <<>>
    /\ cnt_id = 0
    /\ list_steps_computed = <<>>
    /\ pruned = FALSE
    /\ pc = "idle"
    /\ step = 0
    /\ compute_start = 0
    /\ compute_end = 0
    /\ \E rect \in SplitRectangles, t \in SplitSteps, r_term \in TerminalRadii :
          last = Call("input", rect, <<t, r_term>>, <<>>, "", FALSE)
    /\ n_computes = 0
    /\ n_resets = 0

\* split_until_radius(rect, checker, step, r_term).
SplitUntilRadius ==
    /\ last.op = "input"
    /\ last' = Call("split_until_radius", last.a, last.b,
                    split_until_radius(config, last.b[1], last.a, last.b[2]), "", FALSE)
    /\ UNCHANGED <<config, reach, reachable_set_computed, extractor_vars, reach_vars,
                   loop_vars, n_computes, n_resets>>

SpecSplit == InitSplit /\ [][SplitUntilRadius]_vars

\* ---------------------------------------------------------------- C28
\* The caller is back from the split: last.a is the rectangle, last.b the step
\* and the terminal radius, last.ret the rectangles returned.
BackFromSplit == last.op = "split_until_radius"

\* The unit squares <<x, y>> ([x, x+1] x [y, y+1]) of a rectangle.
SquaresOf(r) == {<<x, y>> : x \in r[1]..(r[3] - 1), y \in r[2]..(r[4] - 1)}

\* The rectangles inside `rect` that hold the unit square and whose
\* half-diagonal is at most r_term.
SmallRectanglesAround(sq, rect, r_term) ==
    {q \in ((sq[1] - 2 * r_term)..sq[1]) \X ((sq[2] - 2 * r_term)..sq[2])
           \X ((sq[1] + 1)..(sq[1] + 1 + 2 * r_term)) \X ((sq[2] + 1)..(sq[2] + 1 + 2 * r_term)) :
        /\ Inside(q, rect)
        /\ (q[3] - q[1]) * (q[3] - q[1]) + (q[4] - q[2]) * (q[4] - q[2]) <= 4 * r_term * r_term}

\* C28: for every rectangle, step and terminal radius > 0 the split ends and
\* returns pairwise interior-disjoint rectangles inside the input, none of which
\* collides at the step; an input that does not collide is returned alone and
\* unchanged; every part of the input that is not returned lies in a colliding
\* rectangle whose half-diagonal is at most the terminal radius.
C28_SplitKeepsWhatIsCollisionFree ==
    BackFromSplit =>
        /\ \A i \in DOMAIN last.ret :
               /\ Inside(last.ret[i], last.a)
               /\ ~collides_at_time_step(config, last.b[1], last.ret[i])
        /\ \A i, j \in DOMAIN last.ret : i # j => InteriorDisjoint(last.ret[i], last.ret[j])
        /\ ~collides_at_time_step(config, last.b[1], last.a) => last.ret = <<last.a>>
        /\ \A sq \in SquaresOf(last.a) \ UNION {SquaresOf(r) : r \in Range(last.ret)} :
               \E q \in SmallRectanglesAround(sq, last.a, last.b[2]) :
                   collides_at_time_step(config, last.b[1], q)

\* A rectangle that collides was split: some of it came back, in three or more
\* rectangles, and some of it did not.
C28_Witness ==
    /\ BackFromSplit
    /\ Len(last.ret) >= 3
    /\ SquaresOf(last.a) # UNION {SquaresOf(r) : r \in Range(last.ret)}

\* ------------------------------- the collision checker in curvilinear mode
\* A shape is [type, box, shapes]: a Rectangle, a Polygon or a Circle (a shape
\* that is neither) with the box of its vertices, or a ShapeGroup of shapes.
\* An obstacle is static or dynamic (then present from a step on) and has its
\* position at the centre of its shape.  The road boundary is a static obstacle
\* whose shape is a group of polygons.
CurvilinearScenarios ==
    LET Shape(type, box) == [type |-> type, box |-> box, shapes |-> <<>>]
        Group(shapes) == [type |-> "ShapeGroup", box |-> <<0, 0, 0, 0>>, shapes |-> shapes]
        Static(shape) == [kind |-> "static", shape |-> shape, from |-> 0]
        Dynamic(shape, from) == [kind |-> "dynamic", shape |-> shape, from |-> from]
        boundary == Static(Group(<<Shape("Polygon", <<0, 0, 20, 2>>)>>))
        vehicle == Dynamic(Shape("Rectangle", <<10, 4, 14, 8>>), 1)
    IN [inside |-> <<Static(Shape("Rectangle", <<4, 8, 8, 10>>)), vehicle, boundary>>,
        rectangle_across |-> <<Static(Shape("Rectangle", <<-2, 8, 2, 10>>)), vehicle, boundary>>,
        rectangle_outside |-> <<Static(Shape("Rectangle", <<-6, 8, -2, 10>>)), vehicle, boundary>>,
        polygon_across |-> <<Static(Shape("Polygon", <<-2, 8, 2, 10>>)),
                             Static(Shape("Rectangle", <<4, 8, 8, 10>>)), boundary>>,
        polygon_outside |-> <<Static(Shape("Polygon", <<-6, 8, -2, 10>>)), vehicle, boundary>>,
        circle |-> <<Static(Shape("Circle", <<4, 8, 8, 12>>)), vehicle, boundary>>,
        group |-> <<Static(Group(<<Shape("Rectangle", <<4, 8, 8, 10>>),
                                   Shape("Rectangle", <<-2, 8, 2, 10>>),
                                   Shape("Polygon", <<-2, 12, 2, 14>>),
                                   Shape("Polygon", <<12, 12, 16, 14>>)>>)),
                    vehicle, boundary>>,
        group_circle |-> <<Static(Group(<<Shape("Rectangle", <<4, 8, 8, 10>>),
                                          Shape("Circle", <<4, 12, 8, 16>>)>>)),
                           vehicle, boundary>>]

\* No shape.
None == [type |-> "None", box |-> <<0, 0, 0, 0>>]

\* CLCS.convert_to_curvilinear_coords of a straight reference path that starts
\* at x = 2: a point of the projection domain is moved along the path, a point
\* outside raises ValueError, which is <<>> here.
convert_to_curvilinear_coords(x, y) ==
    IF 0 <= x /\ x <= 20 /\ 0 <= y /\ y <= 20 THEN <<x - 2, y>> ELSE <<>>

\* convert_to_curvilinear_vertices: one vertex outside the domain and the list
\* is empty.
convert_to_curvilinear_vertices(list_vertices_CART) ==
    LET list_vertices_CVLN == [i \in DOMAIN list_vertices_CART |->
            convert_to_curvilinear_coords(list_vertices_CART[i][1], list_vertices_CART[i][2])]
    IN IF \E i \in DOMAIN list_vertices_CVLN : list_vertices_CVLN[i] = <<>>
       THEN <<>>
       ELSE list_vertices_CVLN

\* create_rectangle_from_vertices: Rectangle(length, width), which is centred
\* at the origin, and the centre of the vertices as its position.
create_rectangle_from_vertices(list_vertices) ==
    IF list_vertices = <<>>
    THEN [shape |-> None, position |-> <<>>]
    ELSE LET p_lon_min == Min({v[1] : v \in Range(list_vertices)})
             p_lat_min == Min({v[2] : v \in Range(list_vertices)})
             p_lon_max == Max({v[1] : v \in Range(list_vertices)})
             p_lat_max == Max({v[2] : v \in Range(list_vertices)})
             length == p_lon_max - p_lon_min
             width == p_lat_max - p_lat_min
         IN [shape |-> [type |-> "Rectangle",
                        box |-> <<-(length \div 2), -(width \div 2), length \div 2, width \div 2>>],
             position |-> <<(p_lon_min + p_lon_max) \div 2, (p_lat_min + p_lat_max) \div 2>>]

\* create_polygon_from_vertices: the polygon of the vertices where they are.
create_polygon_from_vertices(list_vertices) ==
    IF list_vertices = <<>>
    THEN None
    ELSE [type |-> "Polygon",
          box |-> <<Min({v[1] : v \in Range(list_vertices)}), Min({v[2] : v \in Range(list_vertices)}),
                    Max({v[1] : v \in Range(list_vertices)}), Max({v[2] : v \in Range(list_vertices)})>>]

\* convert_to_curvilinear_shape: a pair of shape and position for a rectangle
\* and for a polygon, a single None (pair = FALSE) for any other shape.
convert_to_curvilinear_shape(shape) ==
    LET b == shape.box
        vertices == <<<<b[1], b[2]>>, <<b[3], b[2]>>, <<b[3], b[4]>>, <<b[1], b[4]>>>>
        center == <<(b[1] + b[3]) \div 2, (b[2] + b[4]) \div 2>>
    IN CASE shape.type = "Rectangle" ->
              LET r == create_rectangle_from_vertices(convert_to_curvilinear_vertices(vertices))
              IN [pair |-> TRUE, shape |-> r.shape, position |-> r.position]
         [] shape.type = "Polygon" ->
              LET position == convert_to_curvilinear_coords(center[1], center[2])
              IN IF position = <<>>
                 THEN [pair |-> TRUE, shape |-> None, position |-> <<>>]
                 ELSE [pair |-> TRUE,
                       shape |-> create_polygon_from_vertices(convert_to_curvilinear_vertices(vertices)),
                       position |-> position]
         [] OTHER -> [pair |-> FALSE, shape |-> None, position |-> <<>>]

\* The loop over the shapes of a group in convert_to_curvilinear_static_obstacles:
\* a shape that gave no shape or no position is skipped, the obstacles of the
\* others stand at the origin; unpacking a single None raises TypeError.
RECURSIVE convert_shapes_of_group(_)
convert_shapes_of_group(shapes) ==
    IF shapes = <<>>
    THEN [list |-> <<>>, raised |-> ""]
    ELSE LET converted == convert_to_curvilinear_shape(Head(shapes))
             rest == convert_shapes_of_group(Tail(shapes))
         IN IF ~converted.pair
            THEN [list |-> <<>>, raised |-> "TypeError"]
            ELSE IF converted.shape = None \/ converted.position = <<>>
                 THEN rest
                 ELSE [list |-> <<[shape |-> converted.shape, position |-> <<0, 0>>]>> \o rest.list,
                       raised |-> rest.raised]

\* convert_to_curvilinear_static_obstacles: the obstacles made so far are lost
\* with an exception.  An obstacle with a single shape is made of whatever the
\* conversion of the shape gave, at the converted position of the obstacle.
RECURSIVE convert_to_curvilinear_static_obstacles(_)
convert_to_curvilinear_static_obstacles(list_obstacles_static_CART) ==
    IF list_obstacles_static_CART = <<>>
    THEN [list |-> <<>>, raised |-> ""]
    ELSE LET obstacle == Head(list_obstacles_static_CART)
             b == obstacle.shape.box
             first ==
                 IF obstacle.shape.type = "ShapeGroup"
                 THEN convert_shapes_of_group(obstacle.shape.shapes)
                 ELSE LET converted == convert_to_curvilinear_shape(obstacle.shape)
                          position_obstacle_CVLN ==
                              convert_to_curvilinear_coords((b[1] + b[3]) \div 2, (b[2] + b[4]) \div 2)
                      IN IF ~converted.pair
                         THEN [list |-> <<>>, raised |-> "TypeError"]
                         ELSE IF position_obstacle_CVLN = <<>>
                              THEN [list |-> <<>>, raised |-> "ValueError"]
                              ELSE [list |-> <<[shape |-> converted.shape,
                                                position |-> position_obstacle_CVLN]>>,
                                    raised |-> ""]
             rest == convert_to_curvilinear_static_obstacles(Tail(list_obstacles_static_CART))
         IN IF first.raised # ""
            THEN first
            ELSE [list |-> first.list \o rest.list, raised |-> rest.raised]

\* convert_obstacles_to_curvilinear_coordinate_system: the static obstacles
\* converted; the conversion of the dynamic obstacles is a todo.
convert_obstacles_to_curvilinear_coordinate_system(list_obstacles_CART) ==
    LET list_obstacles_static_CART == SelectSeq(list_obstacles_CART, LAMBDA obs : obs.kind = "static")
    IN convert_to_curvilinear_static_obstacles(list_obstacles_static_CART)

\* _create_scenario_for_curvilinear_collision_check: the obstacles of the
\* scenario, when traffic is considered, and the road boundary, which is the
\* last obstacle of a scenario here.
create_scenario_for_curvilinear_collision_check(cfg) ==
    LET scenario == CurvilinearScenarios[cfg.scenario]
        object_road_boundary == scenario[Len(scenario)]
        list_obstacles_CART ==
            (IF cfg.consider_traffic THEN SubSeq(scenario, 1, Len(scenario) - 1) ELSE <<>>)
                \o <<object_road_boundary>>
    IN convert_obstacles_to_curvilinear_coordinate_system(list_obstacles_CART)

\* A configuration in curvilinear mode, and no collision checker yet.
InitCurvilinear ==
    /\ config \in {[cfg EXCEPT !.consider_traffic = b, !.scenario = s] :
                      cfg \in {c \in Configurations :
                                  /\ c.step_start = 0 /\ c.v_lon_initial = 2 /\ c.size_grid_2nd = 2
                                  /\ ~c.prune_nodes_not_reaching_final_step /\ c.scenario = "empty"},
                      b \in BOOLEAN, s \in DOMAIN CurvilinearScenarios}
    /\ reach = TRUE
    /\ reachable_set_computed = FALSE
    /\ driving_corridor_extractor = FALSE
    /\ time_steps = <<>>
    /\ step_start = 0
    /\ step_end = 0
    /\ dict_time_to_base_set_propagated = <<>>
    /\ dict_time_to_drivable_area = <<>>
    /\ dict_time_to_reachable_set = <<>>
    /\ heap = <<>>
    /\ cnt_id = 0
    /\ list_steps_computed = <<>>
    /\ pruned = FALSE
    /\ pc = "idle"
    /\ step = 0
    /\ compute_start = 0
    /\ compute_end = 0
    /\ last = Call("input", <<>>, <<>>, <<>>, "", FALSE)
    /\ n_computes = 0
    /\ n_resets = 0

\* PyCollisionChecker.__init__ with coordinate_system "CVLN": last.ret is
\* scenario_cc.  StaticObstacle is library code: given no shape it either makes
\* the obstacle or raises.
InitializeCollisionChecker ==
    /\ last.op = "input"
    /\ LET scenario_CVLN == create_scenario_for_curvilinear_collision_check(config)
       IN \E raises_without_shape \in BOOLEAN :
             last' = IF scenario_CVLN.raised # ""
                     THEN Call("_initialize_collision_checker", <<>>, <<>>, <<>>,
                               scenario_CVLN.raised, TRUE)
                     ELSE IF raises_without_shape
                             /\ \E i \in DOMAIN scenario_CVLN.list : scenario_CVLN.list[i].shape = None
                          THEN Call("_initialize_collision_checker", <<>>, <<>>, <<>>,
                                    "AttributeError", TRUE)
                          ELSE Call("_initialize_collision_checker", <<>>, <<>>,
                                    scenario_CVLN.list, "", FALSE)
    /\ UNCHANGED <<config, reach, reachable_set_computed, extractor_vars, reach_vars,
                   loop_vars, n_computes, n_resets>>

\* collides_at_time_step(time_idx, rectangle) on the scenario_cc that was made:
\* last.a is the rectangle, last.b the step and scenario_cc.  The occupancy of
\* an obstacle is its shape moved to its position; no shape gives no polygon.
CollidesInCurvilinear(time_idx, rectangle) ==
    /\ last.op \in {"_initialize_collision_checker", "collides_at_time_step"}
    /\ ~last.raised
    /\ LET scenario_CVLN == IF last.op = "collides_at_time_step" THEN last.b[2] ELSE last.ret
           list_polygons ==
               {<<o.shape.box[1] + o.position[1], o.shape.box[2] + o.position[2],
                  o.shape.box[3] + o.position[1], o.shape.box[4] + o.position[2]>> :
                    o \in {c \in Range(scenario_CVLN) : c.shape.type \in {"Rectangle", "Polygon"}}}
       IN last' = Call("collides_at_time_step", rectangle, <<time_idx, scenario_CVLN>>,
                       rectangle_collides_with_obstacles(rectangle, list_polygons), "", FALSE)
    /\ UNCHANGED <<config, reach, reachable_set_computed, extractor_vars, reach_vars,
                   loop_vars, n_computes, n_resets>>

SpecCurvilinear ==
    /\ InitCurvilinear
    /\ [][\/ InitializeCollisionChecker
          \/ \E time_idx \in {0, 2}, rectangle \in {<<8, 4, 10, 6>>, <<2, 8, 4, 10>>, <<14, 14, 16, 16>>,
                                                    <<0, 0, 2, 2>>, <<10, 12, 12, 14>>} :
                CollidesInCurvilinear(time_idx, rectangle)]_vars


\* ---------------------------------------------------------------- C29
\* The collision checker was built, or building it raised.
BackFromInitialize == last.op = "_initialize_collision_checker"

\* The shapes of the static obstacles that are converted for the
\* configuration: the shape of an obstacle, or the members of its group.
ShapesToConvert ==
    LET scenario == CurvilinearScenarios[config.scenario]
        considered == {i \in DOMAIN scenario :
                          /\ scenario[i].kind = "static"
                          /\ config.consider_traffic \/ i = Len(scenario)}
    IN UNION {IF scenario[i].shape.type = "ShapeGroup"
              THEN Range(scenario[i].shape.shapes)
              ELSE {scenario[i].shape} : i \in considered}

\* C29: building the curvilinear collision checker never raises because of a
\* vertex or centre outside the projection domain, whatever the kind of shape
\* (rectangle, polygon, member of a group, any other shape): no obstacle without
\* a shape is added, and every shape whose conversion succeeds is added.
C29_FailedConversionOmitsTheShape ==
    BackFromInitialize =>
        /\ ~last.raised
        /\ \A i \in DOMAIN last.ret : last.ret[i].shape # None
        /\ \A shape \in ShapesToConvert :
               LET converted == convert_to_curvilinear_shape(shape)
               IN (converted.pair /\ converted.shape # None /\ converted.position # <<>>) =>
                      \E i \in DOMAIN last.ret : last.ret[i].shape = converted.shape

\* ---------------------------------------------------------------- C30
\* The caller is back from a collision query in curvilinear mode.
BackFromCollides == last.op = "collides_at_time_step"

\* The converted occupancies at a step of the obstacles of a kind.
ConvertedOccupancies(kind, time_idx) ==
    LET scenario == CurvilinearScenarios[config.scenario]
        shapes == UNION {IF scenario[i].shape.type = "ShapeGroup"
                         THEN Range(scenario[i].shape.shapes)
                         ELSE {scenario[i].shape} :
                            i \in {j \in DOMAIN scenario :
                                      scenario[j].kind = kind /\ scenario[j].from <= time_idx}}
        whole == {convert_to_curvilinear_shape(shape) :
                     shape \in {s \in shapes : s.type \in {"Rectangle", "Polygon"}}}
    IN {IF c.shape.type = "Rectangle"
        THEN <<c.shape.box[1] + c.position[1], c.shape.box[2] + c.position[2],
               c.shape.box[3] + c.position[1], c.shape.box[4] + c.position[2]>>
        ELSE c.shape.box : c \in {w \in whole : w.shape # None /\ w.position # <<>>}}

\* C30: in curvilinear mode with consider_traffic a rectangle that overlaps
\* the converted occupancy of a dynamic obstacle at the step collides at the
\* step; without consider_traffic a rectangle collides exactly when it overlaps
\* the road boundary.
C30_DynamicObstaclesAreInTheCollisionWorld ==
    BackFromCollides =>
        /\ config.consider_traffic =>
               \A occupancy \in ConvertedOccupancies("dynamic", last.b[1]) :
                   Intersects(last.a, occupancy) => last.ret
        /\ ~config.consider_traffic =>
               LET scenario == CurvilinearScenarios[config.scenario]
                   boundary == scenario[Len(scenario)].shape.shapes
                   polygons == {convert_to_curvilinear_shape(boundary[i]).shape.box : i \in DOMAIN boundary}
               IN last.ret = \E polygon \in polygons : Intersects(last.a, polygon)

====
